---- MODULE Spec2Model ----
(***************************************************************************)
(* A model of the Evolver (HTP) core: class-group arithmetic on binary     *)
(* quadratic forms, the affine operator algebra with its P-factor fuse,    *)
(* the streaming neuron, the incremental Merkle log, the hyper-tensor      *)
(* folding and the state-transition proof verifier.                        *)
(*                                                                         *)
(* Form coefficients (a, b, c) are TLC integers; the discriminants are     *)
(* small so that no intermediate value leaves the 32-bit range.  P-factors *)
(* are arbitrary-precision naturals, kept as little-endian sequences of    *)
(* 15-bit limbs, so that the 4096-bit fuse is modelled at its real width.  *)
(* Digests are modelled by the byte input they are computed from, i.e. the *)
(* hash is collision-free on its byte input.                               *)
(***************************************************************************)
EXTENDS Integers, Sequences, FiniteSets, TLC

(***************************************************************************)
(* rug::Integer division flavours                                          *)
(***************************************************************************)
Abs(x) == IF x < 0 THEN -x ELSE x

\* `/`, div_rem, div_rem_ref: quotient rounded towards zero (y # 0)
TruncDiv(x, y) ==
    LET q == Abs(x) \div Abs(y)
    IN  IF (x < 0) # (y < 0) THEN -q ELSE q

\* `%`, rem_assign, the remainder of div_rem: sign of the dividend
TruncRem(x, y) == x - y * TruncDiv(x, y)

\* div_floor, and `>>`
FloorDiv(x, y) ==
    LET q == TruncDiv(x, y)
    IN  IF TruncRem(x, y) # 0 /\ ((x < 0) # (y < 0)) THEN q - 1 ELSE q

\* rem_euc: remainder in 0 .. |y|-1
RemEuc(x, y) ==
    LET r == TruncRem(x, y)
    IN  IF r < 0 THEN r + Abs(y) ELSE r

RECURSIVE Gcd(_, _)
\* Integer::gcd: never negative
Gcd(x, y) == IF y = 0 THEN Abs(x) ELSE Gcd(y, TruncRem(x, y))

RECURSIVE NatBits(_)
\* significant_bits of a machine-size magnitude
NatBits(n) == IF n = 0 THEN 0 ELSE 1 + NatBits(n \div 2)

\* Integer::significant_bits ignores the sign
SignificantBits(x) == NatBits(Abs(x))

(***************************************************************************)
(* Arbitrary-precision naturals (the p_factor of an AffineTuple)           *)
(***************************************************************************)
LimbBase == 2^15

RECURSIVE BigFromNat(_)
BigFromNat(n) ==
    IF n = 0 THEN <<>> ELSE <<n % LimbBase>> \o BigFromNat(n \div LimbBase)

\* drops the carry limb when it is zero
StripCarry(s) == IF s[Len(s)] = 0 THEN SubSeq(s, 1, Len(s) - 1) ELSE s

RECURSIVE AddRange(_, _, _, _, _)
\* limbs lo..hi of x + y + cin, followed by the carry out of limb hi
AddRange(x, y, lo, hi, cin) ==
    IF lo = hi
    THEN LET t == (IF lo <= Len(x) THEN x[lo] ELSE 0)
                  + (IF lo <= Len(y) THEN y[lo] ELSE 0) + cin
         IN  <<t % LimbBase, t \div LimbBase>>
    ELSE LET mid  == (lo + hi) \div 2
             left == AddRange(x, y, lo, mid, cin)
         IN  SubSeq(left, 1, Len(left) - 1)
                 \o AddRange(x, y, mid + 1, hi, left[Len(left)])

BigAdd(x, y) ==
    LET n == IF Len(x) > Len(y) THEN Len(x) ELSE Len(y)
    IN  IF n = 0 THEN <<>> ELSE StripCarry(AddRange(x, y, 1, n, 0))

RECURSIVE MulLimbRange(_, _, _, _, _)
\* limbs lo..hi of x * m + cin, followed by the carry out of limb hi
MulLimbRange(x, m, lo, hi, cin) ==
    IF lo = hi
    THEN LET t == x[lo] * m + cin
         IN  <<t % LimbBase, t \div LimbBase>>
    ELSE LET mid  == (lo + hi) \div 2
             left == MulLimbRange(x, m, lo, mid, cin)
         IN  SubSeq(left, 1, Len(left) - 1)
                 \o MulLimbRange(x, m, mid + 1, hi, left[Len(left)])

\* x * m for one limb m
BigMulLimb(x, m) ==
    IF x = <<>> \/ m = 0 THEN <<>> ELSE StripCarry(MulLimbRange(x, m, 1, Len(x), 0))

RECURSIVE Limbs(_, _)
\* k limbs, all equal to v
Limbs(v, k) ==
    IF k = 0 THEN <<>>
    ELSE IF k = 1 THEN <<v>>
    ELSE Limbs(v, k \div 2) \o Limbs(v, k - (k \div 2))

BigShift(x, k) == IF x = <<>> THEN <<>> ELSE Limbs(0, k) \o x

RECURSIVE BigMulRange(_, _, _, _)
\* x times the limbs lo..hi of y, at their place values
BigMulRange(x, y, lo, hi) ==
    IF lo > hi THEN <<>>
    ELSE IF lo = hi THEN BigShift(BigMulLimb(x, y[lo]), lo - 1)
    ELSE LET mid == (lo + hi) \div 2
         IN  BigAdd(BigMulRange(x, y, lo, mid), BigMulRange(x, y, mid + 1, hi))

\* Integer multiplication of two P-factors
BigMul(x, y) ==
    IF Len(x) >= Len(y) THEN BigMulRange(x, y, 1, Len(y))
    ELSE BigMulRange(y, x, 1, Len(x))

\* Integer::significant_bits
BigBits(x) == IF x = <<>> THEN 0 ELSE 15 * (Len(x) - 1) + NatBits(x[Len(x)])

\* Integer::get_bit
BigGetBit(x, i) ==
    LET l == (i \div 15) + 1
    IN  IF l > Len(x) THEN 0 ELSE (x[l] \div (2^(i % 15))) % 2

\* 2^k
BigPow2(k) == Limbs(0, k \div 15) \o <<2^(k % 15)>>

(***************************************************************************)
(* core/algebra.rs: ClassGroupElement                                      *)
(***************************************************************************)
Form(a, b, c) == [a |-> a, b |-> b, c |-> c]

NoForm == Form(0, 0, 0)

\* Result<ClassGroupElement, String>; kind is "ok", "err" or "panic"
Ok(f) == [ok |-> TRUE, val |-> f, err |-> ""]

Err(msg) == [ok |-> FALSE, val |-> NoForm, err |-> msg]

\* a division by zero inside rug aborts the thread
Panic == Err("panic: division by zero")

Identity(discriminant) == Form(1, 1, TruncDiv(1 - discriminant, 4))

RECURSIVE EgcdLoop(_, _, _, _, _, _)
\* the while loop of extended_gcd; r2, s2, t2 are formed in the recursive call
EgcdLoop(r0, r1, s0, s1, t0, t1) ==
    IF r1 = 0 THEN <<r0, s0, t0>>
    ELSE EgcdLoop(r1, TruncRem(r0, r1),
                  s1, s0 - TruncDiv(r0, r1) * s1,
                  t1, t0 - TruncDiv(r0, r1) * t1)

ExtendedGcd(a, b) == EgcdLoop(a, b, 1, 0, 0, 1)

MAX_STEPS == 2000

\* reduce_form, part 3: the final discriminant and primitivity checks
ReduceCheck(a, b, c, discriminant) ==
    IF b * b - 4 * a * c # discriminant
    THEN Err("Fatal Logic Error: Result discriminant mismatch")
    ELSE IF Gcd(Gcd(a, b), c) # 1
    THEN Err("Security Halt: Form is not primitive")
    ELSE Ok(Form(a, b, c))

RECURSIVE ReduceLoop(_, _, _, _, _)
\* reduce_form, part 2: the second half of one loop iteration, c_new from (a_new, b_new)
ReduceStep(a_new, b_new, safety_counter, discriminant) ==
    IF 4 * a_new = 0
    THEN Err("Math Error: Division by zero in reduction step")
    ELSE IF TruncRem(b_new * b_new - discriminant, 4 * a_new) # 0
    THEN Err("Invariant Violated: Consistency lost during reduction step")
    ELSE ReduceLoop(a_new, b_new, TruncDiv(b_new * b_new - discriminant, 4 * a_new),
                    safety_counter + 1, discriminant)

\* reduce_form, part 2: the reduction loop with its step cap
ReduceLoop(a, b, c, safety_counter, discriminant) ==
    IF a > c \/ (a = c /\ b < 0)
    THEN IF safety_counter > MAX_STEPS
         THEN Err("Critical Error: Reduction loop diverged")
         ELSE IF 2 * c = 0
         THEN Err("Math Error: Division by zero in reduction (c=0)")
         ELSE ReduceStep(c, 2 * c * FloorDiv(c + b, 2 * c) - b, safety_counter,
                         discriminant)
    ELSE ReduceCheck(a, b, c, discriminant)

\* reduce_form, part 1 continued: c = (b^2 - D) / 4a must be exact
ReduceNormalized(a, b, discriminant) ==
    IF TruncRem(b * b - discriminant, 4 * a) # 0
    THEN Err("Invariant Violated: (b^2 - D) not divisible by 4a")
    ELSE ReduceLoop(a, b, TruncDiv(b * b - discriminant, 4 * a), 0, discriminant)

\* b normalised into [-a, a)
NormalizeBelow(b, a) == IF b >= a THEN b - 2 * a ELSE b

\* reduce_form, part 1: b normalised into (-a, a]
NormalizeB(b, a) == IF b > a THEN b - 2 * a ELSE b

ReduceForm(a, b, discriminant) ==
    IF 2 * a = 0
    THEN Err("Math Error: 'a' coefficient is zero (Degenerate Form)")
    ELSE ReduceNormalized(a, NormalizeB(RemEuc(b, 2 * a), a), discriminant)

\* a composition whose new_b is b2, without the term 2 * (a2 / d) * k
ComposeReduceUntwisted(other, a1_div_d, a2_div_d, k, discriminant) ==
    ReduceForm(a1_div_d * a2_div_d, other.b, discriminant)

\* compose, the end: k made non-negative, new_a and new_b formed and reduced
ComposeReduce(other, a1_div_d, a2_div_d, k, discriminant) ==
    ReduceForm(a1_div_d * a2_div_d,
               other.b + 2 * a2_div_d * (IF k < 0 THEN k + a1_div_d ELSE k),
               discriminant)

\* compose, given s and (d, u, v) = extended_gcd(a1, a2)
ComposeGcd(self, other, s, e, discriminant) ==
    IF e[1] = 0 THEN Panic
    ELSE IF TruncRem(s, e[1]) # 0
    THEN Err("Composition Error: gcd(a1, a2) does not divide s")
    ELSE IF TruncDiv(self.a, e[1]) = 0 THEN Panic
    ELSE ComposeReduce(other, TruncDiv(self.a, e[1]), TruncDiv(other.a, e[1]),
                       TruncRem(e[3] * TruncDiv(s - other.b, e[1]),
                                TruncDiv(self.a, e[1])),
                       discriminant)

Compose(self, other, discriminant) ==
    ComposeGcd(self, other, FloorDiv(self.b + other.b, 2),
               ExtendedGcd(self.a, other.a), discriminant)

\* square, the end: yc made non-negative, new_a and new_b formed and reduced
SquareReduce(self, a_div_g, yc, discriminant) ==
    ReduceForm(a_div_g * a_div_g,
               self.b + 2 * a_div_g * (IF yc < 0 THEN yc + a_div_g ELSE yc),
               discriminant)

\* square, given (g, x, y) = extended_gcd(a, b)
SquareGcd(self, e, discriminant) ==
    IF e[1] = 0 THEN Panic
    ELSE IF TruncDiv(self.a, e[1]) = 0 THEN Panic
    ELSE SquareReduce(self, TruncDiv(self.a, e[1]),
                      TruncRem(e[3] * self.c, TruncDiv(self.a, e[1])), discriminant)

Square(self, discriminant) ==
    SquareGcd(self, ExtendedGcd(self.a, self.b), discriminant)

\* the pair (r0, r1) of pow's ladder, or the error that ended it
PowState(r0, r1) == [ok |-> TRUE, r0 |-> r0, r1 |-> r1, err |-> ""]

PowFail(msg) == [ok |-> FALSE, r0 |-> NoForm, r1 |-> NoForm, err |-> msg]

\* one iteration of pow's loop, after its compose (c) and its square (s)
PowAssign(bit, c, s) ==
    IF ~c.ok THEN PowFail(c.err)
    ELSE IF ~s.ok THEN PowFail(s.err)
    ELSE IF bit = 0 THEN PowState(s.val, c.val)
    ELSE PowState(c.val, s.val)

\* one iteration of pow's loop, for exponent bit `bit`
PowStep(st, bit, discriminant) ==
    PowAssign(bit, Compose(st.r0, st.r1, discriminant),
              Square(IF bit = 0 THEN st.r0 ELSE st.r1, discriminant))

RECURSIVE PowLoop(_, _, _, _, _)
\* the iterations for bits hi, hi-1, .., lo of exp, after those for the bits above mid
PowRest(first, exp, mid, lo, discriminant) ==
    IF first.ok THEN PowLoop(first, exp, mid - 1, lo, discriminant) ELSE first

\* the iterations for bits hi, hi-1, .., lo of exp, in that order
PowLoop(st, exp, hi, lo, discriminant) ==
    IF hi < lo THEN st
    ELSE IF hi = lo THEN PowStep(st, BigGetBit(exp, hi), discriminant)
    ELSE PowRest(PowLoop(st, exp, hi, (hi + lo + 1) \div 2, discriminant),
                 exp, (hi + lo + 1) \div 2, lo, discriminant)

\* pow's return: r0 of the final ladder state
PowResult(st) == IF st.ok THEN Ok(st.r0) ELSE Err(st.err)

Pow(self, exp, discriminant) ==
    IF exp = <<>> THEN Ok(Identity(discriminant))
    ELSE PowResult(PowLoop(PowState(Identity(discriminant), self), exp,
                           BigBits(exp) - 1, 0, discriminant))

\* apply_affine whose last composition skips the reduction of its result
ApplyShiftUnreduced(s_powered, q, discriminant) ==
    IF ~s_powered.ok THEN s_powered
    ELSE Ok(Form(s_powered.val.a * q.a, s_powered.val.b, s_powered.val.c))

\* apply_affine after self.pow(p): `?` then compose with q
ApplyShift(s_powered, q, discriminant) ==
    IF ~s_powered.ok THEN s_powered
    ELSE Compose(s_powered.val, q, discriminant)

ApplyAffine(self, p, q, discriminant) ==
    ApplyShift(Pow(self, p, discriminant), q, discriminant)

\* the reduced primitive forms of a discriminant, (a, b, c) with |b| <= a <= c
ReducedForms(discriminant) ==
    LET lim == CHOOSE n \in 1..(-discriminant) :
                   3 * n * n <= -discriminant /\ 3 * (n + 1) * (n + 1) > -discriminant
    IN  { Form(a, b, TruncDiv(b * b - discriminant, 4 * a)) :
            <<a, b>> \in { ab \in (1..lim) \X ((-lim)..lim) :
                /\ -ab[1] < ab[2] /\ ab[2] <= ab[1]
                /\ TruncRem(ab[2] * ab[2] - discriminant, 4 * ab[1]) = 0
                /\ LET c == TruncDiv(ab[2] * ab[2] - discriminant, 4 * ab[1])
                   IN  /\ c >= ab[1]
                       /\ (c = ab[1] => ab[2] >= 0)
                       /\ Gcd(Gcd(ab[1], ab[2]), c) = 1 } }

(***************************************************************************)
(* core/affine.rs: AffineTuple                                             *)
(***************************************************************************)
MAX_CHUNK_P_BITS == 4096

AffineTuple(p, q) == [p_factor |-> p, q_shift |-> q]

NoTuple == AffineTuple(<<>>, NoForm)

\* Result<AffineTuple, String>
OkTuple(t) == [ok |-> TRUE, val |-> t, err |-> ""]

ErrTuple(msg) == [ok |-> FALSE, val |-> NoTuple, err |-> msg]

Falsified == "Falsified: Affine P-Factor overflow"

AffineIdentity(discriminant) == AffineTuple(<<1>>, Identity(discriminant))

\* Ok(AffineTuple { p_factor: new_p, q_shift: new_q }) after `?` on new_q
AffineResult(new_p, new_q) ==
    IF ~new_q.ok THEN ErrTuple(new_q.err)
    ELSE OkTuple(AffineTuple(new_p, new_q.val))

\* compose after the fuse: `?` on Q1^P2, then Q1^P2 * Q2
AffineShift(new_p, q1_pow_p2, other, discriminant) ==
    IF ~q1_pow_p2.ok THEN ErrTuple(q1_pow_p2.err)
    ELSE AffineResult(new_p, Compose(q1_pow_p2.val, other.q_shift, discriminant))

AffineCompose(self, other, discriminant) ==
    IF BigBits(self.p_factor) + BigBits(other.p_factor) > MAX_CHUNK_P_BITS
    THEN ErrTuple(Falsified)
    ELSE AffineShift(BigMul(self.p_factor, other.p_factor),
                     Pow(self.q_shift, other.p_factor, discriminant),
                     other, discriminant)

CommutativeMerge(self, other, discriminant) ==
    AffineResult(BigMul(self.p_factor, other.p_factor),
                 Compose(self.q_shift, other.q_shift, discriminant))

(***************************************************************************)
(* State (declared here; the operators on the tensor read its fields)      *)
(***************************************************************************)
VARIABLES
    discriminant,   \* the system parameter shared by every component
    accumulator,    \* tests/streaming_test.rs: the AffineTuple being chained
    chain_op,       \* the operator the chain composes onto the accumulator
    chain_len,      \* number of successful compose steps of the chain
    chain_err,      \* "" while the chain runs, else the Err that ended it
    state,          \* tests/streaming_test.rs: the streaming accumulator S
    stream_len,     \* number of successful apply_affine steps of the stream
    stream_err,     \* "" while the stream runs, else the Err that ended it
    alg_call,       \* the last call made on a function of the library, with its arguments
    alg_ret,        \* what that call returned
    dimensions,     \* HyperTensor::dimensions
    side_length,    \* HyperTensor::side_length
    data,           \* HyperTensor::data: Coordinate -> TimeSegmentTree::leaves
    tensor_ret,     \* the last call made on the HyperTensor and what it returned
    peaks,          \* IncrementalMerkleTree::peaks
    leaf_count,     \* IncrementalMerkleTree::leaf_count
    log_states,     \* the checkpoint states whose digests the tree holds, in order
    proof,          \* the StateTransitionProof in the verifier's hands
    tampered,       \* the part of the proof altered since the prover made it
    verify_ret,     \* what verify printed and returned for it, "none" before the call
    p_weight,       \* HTPNeuron::p_weight
    semantic_root,  \* HTPNeuron::semantic_root
    commitment_buffer,  \* HTPNeuron::commitment_buffer
    generator_ret,  \* what ClassGroupElement::generator(discriminant) does
    input_stream,   \* activate: the argument input_stream
    loop_t,         \* activate: the number of loop iterations completed
    neuron_pc,      \* activate: "idle" before the call, "loop", then "returned"
    emitted,        \* the iterations t of this activation that inserted a checkpoint
    activate_ret,   \* what activate returned
    readers,        \* per oracle query thread: idle, or the memory read guard it holds
    threads,        \* per thread: the operation it runs, the guards it holds
    poisoned        \* the locks poisoned by a panic of a thread holding their write guard

FuseVars == <<accumulator, chain_op, chain_len, chain_err>>

StreamVars == <<state, stream_len, stream_err>>

AlgVars == <<alg_call, alg_ret>>

TensorVars == <<dimensions, side_length, data, tensor_ret>>

ProofVars == <<peaks, leaf_count, log_states, proof, tampered, verify_ret>>

NeuronVars == <<p_weight, semantic_root, commitment_buffer, generator_ret, input_stream,
                loop_t, neuron_pc, emitted, activate_ret, readers, threads, poisoned>>

\* the most threads that query one neuron through an HTPOracle
MaxOracles == 2

\* no query thread holds a guard
NoReaders == [r \in 1..MaxOracles |-> <<"idle">>]

\* the most threads that run operations on one model
MaxThreads == 3

\* no thread has started an operation
NoThreads == [t \in 1..MaxThreads |-> [op |-> "idle", pc |-> 0, held |-> {}]]

vars == <<discriminant, FuseVars, StreamVars, AlgVars, TensorVars, ProofVars, NeuronVars>>

Discriminants == {-23, -47}

(***************************************************************************)
(* topology/tensor.rs and topology/folding.rs: TimeSegmentTree, HyperTensor*)
(***************************************************************************)
\* build_tree_recursive after its two recursive calls: `?` on each, then compose
TreeJoin(left, right, d) ==
    IF ~left.ok THEN left
    ELSE IF ~right.ok THEN right
    ELSE AffineCompose(left.val, right.val, d)

RECURSIVE BuildTreeRecursive(_, _)
BuildTreeRecursive(nodes, d) ==
    IF Len(nodes) = 0 THEN OkTuple(AffineIdentity(d))
    ELSE IF Len(nodes) = 1 THEN OkTuple(nodes[1])
    ELSE TreeJoin(BuildTreeRecursive(SubSeq(nodes, 1, Len(nodes) \div 2), d),
                  BuildTreeRecursive(SubSeq(nodes, (Len(nodes) \div 2) + 1, Len(nodes)), d),
                  d)

\* TimeSegmentTree::root
TreeRoot(leaves, d) ==
    IF leaves = <<>> THEN OkTuple(AffineIdentity(d)) ELSE BuildTreeRecursive(leaves, d)

RECURSIVE CoordDigits(_, _)
\* the loop of map_id_to_coord / map_id_to_coord_hash with n axes left
CoordDigits(val, n) ==
    IF n = 0 THEN <<>>
    ELSE <<val % side_length>> \o CoordDigits(val \div side_length, n - 1)

\* map_id_to_coord_hash, given the u128 read from the hash of the user id
MapIdToCoordHash(val) == CoordDigits(val, dimensions)

\* Result<HashMap<Coordinate, AffineTuple>, String>
Snapshot(ok, val, err) == [ok |-> ok, val |-> val, err |-> err]

\* reconstruct_spatial_snapshot, given every cell's time root: the first Err
\* met is returned, else the cells whose root has P # 1 or Q # identity
SnapshotOf(roots) ==
    IF \E c \in DOMAIN roots : ~roots[c].ok
    THEN Snapshot(FALSE, <<>>, roots[CHOOSE c \in DOMAIN roots : ~roots[c].ok].err)
    ELSE Snapshot(TRUE,
                  [c \in {e \in DOMAIN roots :
                            IF roots[e].val.p_factor # <<1>> THEN TRUE
                            ELSE roots[e].val.q_shift # Identity(discriminant)}
                     |-> roots[c].val],
                  "")

ReconstructSpatialSnapshot ==
    SnapshotOf([c \in DOMAIN data |-> TreeRoot(data[c], discriminant)])

\* the smallest element of a non-empty set of indices (sorted_indices[0])
FirstIndex(idxs) == CHOOSE i \in idxs : \A j \in idxs : i <= j

\* fold_sparse: the cells of relevant_data whose coordinate on target_dim is idx
SubMap(relevant_data, target_dim, idx) ==
    [c \in {e \in DOMAIN relevant_data :
              target_dim < Len(e) /\ e[target_dim + 1] = idx} |-> relevant_data[c]]

RECURSIVE FoldSparse(_, _, _)
RECURSIVE FoldLayer(_, _, _, _, _)
\* fold_sparse's loop after layer_agg.commutative_merge(&sub_result): `?`, next index
FoldNext(merged, idxs, depth, dim_order, relevant_data) ==
    IF ~merged.ok THEN merged
    ELSE FoldLayer(merged.val, idxs, depth, dim_order, relevant_data)

\* fold_sparse's loop after the recursive call: `?`, then commutative_merge
FoldMerge(layer_agg, sub_result, idxs, depth, dim_order, relevant_data) ==
    IF ~sub_result.ok THEN sub_result
    ELSE FoldNext(CommutativeMerge(layer_agg, sub_result.val, discriminant),
                  idxs, depth, dim_order, relevant_data)

\* fold_sparse's loop over the sorted indices still to visit
FoldLayer(layer_agg, idxs, depth, dim_order, relevant_data) ==
    IF idxs = {} THEN OkTuple(layer_agg)
    ELSE FoldMerge(layer_agg,
                   FoldSparse(depth + 1, dim_order,
                              SubMap(relevant_data, dim_order[depth + 1], FirstIndex(idxs))),
                   idxs \ {FirstIndex(idxs)}, depth, dim_order, relevant_data)

\* a fold that keeps only the cell it visits first in the order of dim_order
FoldSparseFirstCell(depth, dim_order, relevant_data) ==
    IF DOMAIN relevant_data = {} \/ Len(dim_order) < 2
    THEN OkTuple(AffineIdentity(discriminant))
    ELSE OkTuple(relevant_data[CHOOSE c \in DOMAIN relevant_data :
                    \A e \in DOMAIN relevant_data :
                        c[dim_order[1] + 1] * side_length + c[dim_order[2] + 1]
                            <= e[dim_order[1] + 1] * side_length + e[dim_order[2] + 1]])

FoldSparse(depth, dim_order, relevant_data) ==
    IF DOMAIN relevant_data = {} THEN OkTuple(AffineIdentity(discriminant))
    ELSE IF depth = dimensions THEN OkTuple(AffineIdentity(discriminant))
    ELSE FoldLayer(AffineIdentity(discriminant),
                   {c[dim_order[depth + 1] + 1] :
                      c \in {e \in DOMAIN relevant_data : dim_order[depth + 1] < Len(e)}},
                   depth, dim_order, relevant_data)

\* compute_root_internal after reconstruct_spatial_snapshot()?
FoldSnapshot(flat_data, dim_order) ==
    IF ~flat_data.ok THEN ErrTuple(flat_data.err)
    ELSE FoldSparse(0, dim_order, flat_data.val)

ComputeRootInternal(dim_order) == FoldSnapshot(ReconstructSpatialSnapshot, dim_order)

\* (0..self.dimensions).collect()
NaturalOrder == [i \in 1..dimensions |-> i - 1]

CalculateGlobalRoot == ComputeRootInternal(NaturalOrder)

\* order_b: order_a with its first two axes swapped
SwappedOrder ==
    [i \in 1..dimensions |-> IF i = 1 THEN 1 ELSE IF i = 2 THEN 0 ELSE i - 1]

\* Result<bool, String>
OkBool(v) == [ok |-> TRUE, val |-> v, err |-> ""]

\* verify_holographic_symmetry after root_a: the early return, root_b, the judgment
SymmetryJudgment(root_a, root_b) ==
    IF ~root_a.ok THEN [ok |-> FALSE, val |-> FALSE, err |-> root_a.err]
    ELSE IF dimensions < 2 THEN OkBool(TRUE)
    ELSE IF ~root_b.ok THEN [ok |-> FALSE, val |-> FALSE, err |-> root_b.err]
    ELSE IF root_a.val.p_factor # root_b.val.p_factor
            \/ root_a.val.q_shift # root_b.val.q_shift
    THEN OkBool(FALSE)
    ELSE OkBool(TRUE)

VerifyHolographicSymmetry ==
    SymmetryJudgment(ComputeRootInternal(NaturalOrder), ComputeRootInternal(SwappedOrder))

(***************************************************************************)
(* topology/merkle.rs and net/wire.rs.  A digest is modelled by the bytes  *)
(* hashed: the tag followed by the input.                                  *)
(***************************************************************************)
\* Option::None in peaks
None == <<"NONE">>

\* [0u8; 32]
ZeroDigest == <<"ZERO">>

\* hash_node, and the node hash inside MerkleProof::verify
HashNode(left, right) == <<"HTP_MERKLE_NODE", left, right>>

\* an append that never merges: every leaf is pushed as a peak of its own
AppendLoopNoCarry(pk, current_hash, height) == Append(pk, current_hash)

RECURSIVE AppendLoop(_, _, _)
\* the loop of append: the peaks once current_hash has found its place
AppendLoop(pk, current_hash, height) ==
    IF height >= Len(pk) THEN AppendLoop(Append(pk, None), current_hash, height)
    ELSE IF pk[height + 1] # None
    THEN AppendLoop([pk EXCEPT ![height + 1] = None],
                    HashNode(pk[height + 1], current_hash), height + 1)
    ELSE [pk EXCEPT ![height + 1] = current_hash]

\* a root that is the highest peak alone
RootFoldHighest(pk, k, root_hash, first) == pk[Len(pk)]

RECURSIVE RootFold(_, _, _, _)
\* the loop of root over peaks[k..], k counted from 1
RootFold(pk, k, root_hash, first) ==
    IF k > Len(pk) THEN root_hash
    ELSE IF pk[k] = None THEN RootFold(pk, k + 1, root_hash, first)
    ELSE IF first THEN RootFold(pk, k + 1, pk[k], FALSE)
    ELSE RootFold(pk, k + 1, HashNode(root_hash, pk[k]), FALSE)

\* IncrementalMerkleTree::root
MerkleRoot(pk, count) == IF count = 0 THEN ZeroDigest ELSE RootFold(pk, 1, ZeroDigest, TRUE)

RECURSIVE VerifyPath(_, _, _)
\* the loop of MerkleProof::verify
VerifyPath(current_hash, index, siblings) ==
    IF siblings = <<>> THEN current_hash
    ELSE VerifyPath(IF index % 2 = 0 THEN HashNode(current_hash, Head(siblings))
                    ELSE HashNode(Head(siblings), current_hash),
                    index \div 2, Tail(siblings))

MerkleProofVerify(self, global_root) ==
    VerifyPath(self.leaf_hash, self.leaf_index, self.siblings) = global_root

RECURSIVE ToDigits(_)
\* Integer::to_digits::<u8>(Order::Lsf) of a value of magnitude n: the bytes
\* of the magnitude, least significant first, none for zero
ToDigits(n) == IF n = 0 THEN <<>> ELSE <<n % 256>> \o ToDigits(n \div 256)

\* the leaf digest of a checkpoint (P = 1, Q = state)
LeafDigest(checkpoint_state) ==
    <<"HTP_LOG_ENTRY_V1",
      ToDigits(1) \o ToDigits(Abs(checkpoint_state.a))
          \o ToDigits(Abs(checkpoint_state.b)) \o ToDigits(Abs(checkpoint_state.c))>>

RECURSIVE Replay(_, _, _)
\* the replay loop after one apply_affine
ReplayNext(r, rest, d) == IF ~r.ok THEN r ELSE Replay(r.val, rest, d)

\* the replay loop of StateTransitionProof::verify from computed_state
Replay(computed_state, replay_ops, d) ==
    IF replay_ops = <<>> THEN Ok(computed_state)
    ELSE ReplayNext(ApplyAffine(computed_state, replay_ops[1].p_factor,
                                replay_ops[1].q_shift, d),
                    Tail(replay_ops), d)

\* the end of verify: the replay's outcome against claimed_final_state
VerifyFinal(replayed, claimed_final_state) ==
    IF ~replayed.ok THEN "false: replay error"
    ELSE IF replayed.val # claimed_final_state THEN "false: state mismatch"
    ELSE "true"

\* a verify that does not audit the log
VerifyUnaudited(self, global_merkle_root, d) ==
    IF LeafDigest(self.checkpoint_state) # self.log_inclusion_proof.leaf_hash
    THEN "false: binding"
    ELSE VerifyFinal(Replay(self.checkpoint_state, self.replay_ops, d),
                     self.claimed_final_state)

\* StateTransitionProof::verify: "true", or "false" with the alert printed
Verify(self, global_merkle_root, d) ==
    IF LeafDigest(self.checkpoint_state) # self.log_inclusion_proof.leaf_hash
    THEN "false: binding"
    ELSE IF ~MerkleProofVerify(self.log_inclusion_proof, global_merkle_root)
    THEN "false: merkle proof invalid"
    ELSE VerifyFinal(Replay(self.checkpoint_state, self.replay_ops, d),
                     self.claimed_final_state)

(***************************************************************************)
(* The prover's side of an inclusion proof: the siblings along a leaf's    *)
(* path in the tree that root() hashes.                                    *)
(***************************************************************************)
RECURSIVE SubRoot(_, _, _)
\* the root of the full subtree over the 2^k leaf digests from leaves[start + 1]
SubRoot(leaves, start, k) ==
    IF k = 0 THEN leaves[start + 1]
    ELSE HashNode(SubRoot(leaves, start, k - 1), SubRoot(leaves, start + 2^(k - 1), k - 1))

RECURSIVE InnerSiblings(_, _, _, _, _)
\* the siblings of leaf i inside its peak of height h, which starts at leaf
\* offset, from level k upwards
InnerSiblings(leaves, i, offset, h, k) ==
    IF k = h THEN <<>>
    ELSE <<SubRoot(leaves,
                   offset + 2^k * (IF ((i - offset) \div 2^k) % 2 = 0
                                   THEN ((i - offset) \div 2^k) + 1
                                   ELSE ((i - offset) \div 2^k) - 1),
                   k)>>
         \o InnerSiblings(leaves, i, offset, h, k + 1)

\* the siblings of the peak of height h on the way to the root: the fold of
\* the lower peaks, then each higher peak
OuterSiblings(pk, h) ==
    (IF \E k \in 1..h : pk[k] # None
     THEN <<RootFold(SubSeq(pk, 1, h), 1, ZeroDigest, TRUE)>> ELSE <<>>)
    \o SelectSeq(SubSeq(pk, h + 2, Len(pk)), LAMBDA x : x # None)

\* the height of the peak that holds leaf i of count leaves
PeakOf(i, count) ==
    CHOOSE h \in 0..count :
        /\ (count \div 2^h) % 2 = 1
        /\ (count \div 2^(h + 1)) * 2^(h + 1) <= i
        /\ i < (count \div 2^(h + 1)) * 2^(h + 1) + 2^h

PathSiblings(leaves, pk, i) ==
    InnerSiblings(leaves, i, (Len(leaves) \div 2^(PeakOf(i, Len(leaves)) + 1))
                                 * 2^(PeakOf(i, Len(leaves)) + 1),
                  PeakOf(i, Len(leaves)), 0)
    \o OuterSiblings(pk, PeakOf(i, Len(leaves)))

(***************************************************************************)
(* Operator chaining: acc <- acc.compose(op).unwrap()                      *)
(***************************************************************************)
FuseOperators(d) ==
    {AffineTuple(BigFromNat(1009), Identity(d)), AffineTuple(Limbs(LimbBase - 1, 136) \o <<2^8 - 1>>, Identity(d))}
    \cup {AffineTuple(BigPow2(60), q) : q \in ReducedForms(d)}

\* the chain harness before any chain is set up
FuseIdle ==
    /\ accumulator = NoTuple
    /\ chain_op = NoTuple
    /\ chain_len = 0
    /\ chain_err = ""

\* the stream harness before any stream is set up
StreamIdle ==
    /\ state = NoForm
    /\ stream_len = 0
    /\ stream_err = ""

\* no call made yet on the ClassGroupElement API
AlgIdle ==
    /\ alg_call = <<"none">>
    /\ alg_ret = Err("")

\* HyperTensor::new(0, 1, discriminant), never called
TensorIdle ==
    /\ dimensions = 0
    /\ side_length = 1
    /\ data = <<>>
    /\ tensor_ret = <<"new">>

\* the proof to verify when there is none
NoProof ==
    [checkpoint_state |-> NoForm,
     log_inclusion_proof |-> [leaf_index |-> 0, leaf_hash |-> ZeroDigest, siblings |-> <<>>],
     replay_ops |-> <<>>,
     claimed_final_state |-> NoForm]

\* IncrementalMerkleTree::new(), and no proof made
ProofIdle ==
    /\ peaks = <<>>
    /\ leaf_count = 0
    /\ log_states = <<>>
    /\ proof = NoProof
    /\ tampered = "none"
    /\ verify_ret = "none"

\* no neuron built
NeuronIdle ==
    /\ p_weight = <<>>
    /\ semantic_root = NoForm
    /\ commitment_buffer = <<>>
    /\ generator_ret = Err("")
    /\ input_stream = <<>>
    /\ loop_t = 0
    /\ neuron_pc = "none"
    /\ emitted = <<>>
    /\ activate_ret = ErrTuple("")
    /\ readers = NoReaders
    /\ threads = NoThreads
    /\ poisoned = {}

\* accumulator = accumulator.compose(&op, &discriminant).unwrap(), given the result r
ChainAssign(r) ==
    IF r.ok
    THEN /\ accumulator' = r.val
         /\ chain_len' = chain_len + 1
         /\ UNCHANGED chain_err
    ELSE /\ chain_err' = r.err
         /\ UNCHANGED <<accumulator, chain_len>>

ChainCompose ==
    /\ chain_err = ""
    /\ ChainAssign(AffineCompose(accumulator, chain_op, discriminant))
    /\ UNCHANGED <<discriminant, chain_op, StreamVars, AlgVars, TensorVars, ProofVars, NeuronVars>>

InitFuse ==
    /\ discriminant \in Discriminants
    /\ accumulator = AffineIdentity(discriminant)
    /\ chain_op \in FuseOperators(discriminant)
    /\ chain_len = 0
    /\ chain_err = ""
    /\ StreamIdle /\ AlgIdle /\ TensorIdle /\ ProofIdle /\ NeuronIdle

SpecFuse == InitFuse /\ [][ChainCompose]_vars

\* C2 (as claimed): compose answers the overflow error, and no tuple, whenever
\* the two P-factors have more than 4096 significant bits together; every
\* tuple it returns has a P-factor of at most 4096 bits; and a chain
\* acc <- compose(acc, op) with P(op) >= 2 ends by this error and no other,
\* which for P = 1009 happens within 1000 steps.
C2_FuseEndsEveryChain ==
    /\ BigBits(accumulator.p_factor) + BigBits(chain_op.p_factor) > MAX_CHUNK_P_BITS
          => AffineCompose(accumulator, chain_op, discriminant) = ErrTuple(Falsified)
    /\ BigBits(accumulator.p_factor) <= MAX_CHUNK_P_BITS
    /\ chain_err \in {"", Falsified}
    /\ chain_len <= MAX_CHUNK_P_BITS
    /\ chain_op.p_factor = BigFromNat(1009) => chain_len < 1000

(***************************************************************************)
(* State streaming: state <- state.apply_affine(p, q).unwrap()             *)
(***************************************************************************)
\* the margin the streaming test allows over the discriminant's bit length
STATE_MARGIN == 200

\* the longest stream explored
MaxStream == 12

\* state = state.apply_affine(&p, &q, &discriminant).unwrap(), given the result r
StreamAssign(r) ==
    IF r.ok
    THEN /\ state' = r.val
         /\ stream_len' = stream_len + 1
         /\ UNCHANGED stream_err
    ELSE /\ stream_err' = r.err
         /\ UNCHANGED <<state, stream_len>>

StreamStep ==
    /\ stream_err = ""
    /\ stream_len < MaxStream
    /\ \E p \in {BigFromNat(2), BigFromNat(1009), BigPow2(60)}, q \in ReducedForms(discriminant) :
           StreamAssign(ApplyAffine(state, p, q, discriminant))
    /\ UNCHANGED <<discriminant, FuseVars, AlgVars, TensorVars, ProofVars, NeuronVars>>

InitStream ==
    /\ discriminant \in Discriminants
    /\ state = Identity(discriminant)
    /\ stream_len = 0
    /\ stream_err = ""
    /\ FuseIdle /\ AlgIdle /\ TensorIdle /\ ProofIdle /\ NeuronIdle

SpecStream == InitStream /\ [][StreamStep]_vars

\* C3: after any number of successful streaming steps from the identity the
\* accumulator's a coefficient has fewer bits than the discriminant's bit
\* length plus 200, whatever the step count: S is always a reduced form,
\* 0 < a and 3a^2 <= |D|, so a never has more bits than D.
C3_StateBounded ==
    /\ SignificantBits(state.a) < SignificantBits(discriminant) + STATE_MARGIN
    /\ SignificantBits(state.a) <= SignificantBits(discriminant)
    /\ state.a > 0 /\ 3 * state.a * state.a <= -discriminant

\* a stream of MaxStream successful steps that has left the identity
C3_Witness ==
    /\ stream_len = MaxStream
    /\ stream_err = ""
    /\ state # Identity(discriminant)

(***************************************************************************)
(* The public ClassGroupElement API called on arbitrary field values: the  *)
(* struct's fields are public and deserialisable, so compose, square, pow  *)
(* and apply_affine can be handed any (a, b, c).                           *)
(***************************************************************************)
\* the largest |a| and |b| of an input form
MaxCoef == 3

\* input forms: every (a, b) of the box, with the c that (a, b) and the
\* discriminant determine (rounded when not exact) or c = 1
InputForms(d) ==
    {Form(ab[1], ab[2], 1) : ab \in ((-MaxCoef)..MaxCoef) \X ((-MaxCoef)..MaxCoef)}
    \cup {Form(ab[1], ab[2], TruncDiv(ab[2] * ab[2] - d, 4 * ab[1])) :
             ab \in (((-MaxCoef)..MaxCoef) \ {0}) \X ((-MaxCoef)..MaxCoef)}

\* the exponents pow and apply_affine are called with
AlgExponents == {<<>>, BigFromNat(1), BigFromNat(2), BigFromNat(3)}

CallCompose ==
    /\ alg_call = <<"none">>
    /\ \E self \in InputForms(discriminant), other \in InputForms(discriminant) :
           /\ alg_call' = <<"compose", self, other>>
           /\ alg_ret' = Compose(self, other, discriminant)
    /\ UNCHANGED <<discriminant, FuseVars, StreamVars, TensorVars, ProofVars, NeuronVars>>

CallSquare ==
    /\ alg_call = <<"none">>
    /\ \E self \in InputForms(discriminant) :
           /\ alg_call' = <<"square", self>>
           /\ alg_ret' = Square(self, discriminant)
    /\ UNCHANGED <<discriminant, FuseVars, StreamVars, TensorVars, ProofVars, NeuronVars>>

CallPow ==
    /\ alg_call = <<"none">>
    /\ \E self \in InputForms(discriminant), exp \in AlgExponents :
           /\ alg_call' = <<"pow", self, exp>>
           /\ alg_ret' = Pow(self, exp, discriminant)
    /\ UNCHANGED <<discriminant, FuseVars, StreamVars, TensorVars, ProofVars, NeuronVars>>

CallApplyAffine ==
    /\ alg_call = <<"none">>
    /\ \E self \in InputForms(discriminant), p \in AlgExponents,
          q \in InputForms(discriminant) :
           /\ alg_call' = <<"apply_affine", self, p, q>>
           /\ alg_ret' = ApplyAffine(self, p, q, discriminant)
    /\ UNCHANGED <<discriminant, FuseVars, StreamVars, TensorVars, ProofVars, NeuronVars>>

\* reduce_form as compose, square and pow call it on a form that needs no
\* reduction: the (a, b) of a reduced primitive form
CallReduceForm ==
    /\ alg_call = <<"none">>
    /\ \E self \in ReducedForms(discriminant) :
           /\ alg_call' = <<"reduce_form", self>>
           /\ alg_ret' = ReduceForm(self.a, self.b, discriminant)
    /\ UNCHANGED <<discriminant, FuseVars, StreamVars, TensorVars, ProofVars, NeuronVars>>

InitAlgebra ==
    /\ discriminant \in Discriminants
    /\ AlgIdle /\ FuseIdle /\ StreamIdle /\ TensorIdle /\ ProofIdle /\ NeuronIdle

SpecAlgebra ==
    InitAlgebra /\ [][CallCompose \/ CallSquare \/ CallPow \/ CallApplyAffine
                      \/ CallReduceForm]_vars

\* C4 (as claimed): every element returned Ok by compose, square, pow or
\* apply_affine, whatever inputs they were given, has a # 0, b^2 - 4ac = D,
\* gcd(a, b, c) = 1, |b| <= a <= c, and b >= 0 whenever |b| = a or a = c.
C4_OkIsReduced ==
    alg_ret.ok =>
        /\ alg_ret.val.a # 0
        /\ alg_ret.val.b * alg_ret.val.b - 4 * alg_ret.val.a * alg_ret.val.c
               = discriminant
        /\ Gcd(Gcd(alg_ret.val.a, alg_ret.val.b), alg_ret.val.c) = 1
        /\ Abs(alg_ret.val.b) <= alg_ret.val.a
        /\ alg_ret.val.a <= alg_ret.val.c
        /\ (Abs(alg_ret.val.b) = alg_ret.val.a \/ alg_ret.val.a = alg_ret.val.c)
               => alg_ret.val.b >= 0

(***************************************************************************)
(* HyperTensor: insert, calculate_global_root, verify_holographic_symmetry *)
(***************************************************************************)
\* the largest u128 the hash of a user id is taken to give
MaxHash == 3

\* the most tuples inserted into one tensor
MaxInserts == 2

\* the tuples inserted: a P-factor, the over-wide P-factor, and a Q-shift, the
\* form (2, 1, (1 - D) / 8) of a discriminant D = 1 (mod 8)
TensorTuples(d) ==
    {AffineTuple(BigFromNat(2), Identity(d)),
     AffineTuple(BigPow2(MAX_CHUNK_P_BITS), Identity(d)),
     AffineTuple(<<1>>, Form(2, 1, TruncDiv(1 - d, 8)))}

RECURSIVE LeafCount(_)
\* the number of leaves held by the cells cs
LeafCount(cs) ==
    IF cs = {} THEN 0
    ELSE Len(data[CHOOSE c \in cs : TRUE]) + LeafCount(cs \ {CHOOSE c \in cs : TRUE})

\* self.data.entry(coord).or_insert_with(TimeSegmentTree::new).append(new_tuple)
AppendAt(coord, new_tuple) ==
    IF coord \in DOMAIN data
    THEN [data EXCEPT ![coord] = Append(@, new_tuple)]
    ELSE (coord :> <<new_tuple>>) @@ data

Insert ==
    /\ LeafCount(DOMAIN data) < MaxInserts
    /\ \E val \in 0..MaxHash, new_tuple \in TensorTuples(discriminant) :
           data' = AppendAt(MapIdToCoordHash(val), new_tuple)
    /\ tensor_ret' = <<"insert">>
    /\ UNCHANGED <<discriminant, dimensions, side_length, FuseVars, StreamVars, AlgVars, ProofVars, NeuronVars>>

CallCalculateGlobalRoot ==
    /\ tensor_ret' = <<"calculate_global_root", CalculateGlobalRoot>>
    /\ UNCHANGED <<discriminant, dimensions, side_length, data,
                   FuseVars, StreamVars, AlgVars, ProofVars, NeuronVars>>

CallVerifyHolographicSymmetry ==
    /\ tensor_ret' = <<"verify_holographic_symmetry", VerifyHolographicSymmetry>>
    /\ UNCHANGED <<discriminant, dimensions, side_length, data,
                   FuseVars, StreamVars, AlgVars, ProofVars, NeuronVars>>

InitTensor ==
    /\ discriminant \in Discriminants
    /\ \E shape \in {<<1, 2>>, <<2, 2>>, <<3, 2>>} : dimensions = shape[1] /\ side_length = shape[2]
    /\ data = <<>>
    /\ tensor_ret = <<"new">>
    /\ FuseIdle /\ StreamIdle /\ AlgIdle /\ ProofIdle /\ NeuronIdle

SpecTensor == InitTensor /\ [][Insert \/ CallCalculateGlobalRoot \/ CallVerifyHolographicSymmetry]_vars

\* the cells whose time root is computed and has P # 1 or Q # identity
NonTrivialCells ==
    {c \in DOMAIN data :
        /\ TreeRoot(data[c], discriminant).ok
        /\ TreeRoot(data[c], discriminant).val # AffineIdentity(discriminant)}

\* C9 (as claimed): calculate_global_root is the commutative_merge of the
\* non-trivial time roots; in particular, when every time root is computed
\* and exactly one cell is non-trivial, the global root is that cell's
\* TimeSegmentTree root.
C9_GlobalRootOfOneCell ==
    (/\ tensor_ret[1] = "calculate_global_root"
     /\ \A c \in DOMAIN data : TreeRoot(data[c], discriminant).ok
     /\ Cardinality(NonTrivialCells) = 1)
    => \A c \in NonTrivialCells : tensor_ret[2] = TreeRoot(data[c], discriminant)

\* every order of the axes 0 .. dimensions-1
AxisOrders ==
    {[i \in 1..dimensions |-> perm[i] - 1] : perm \in Permutations(1..dimensions)}

\* C10 (as claimed): verify_holographic_symmetry returns Ok(true) after any
\* sequence of insert operations.
C10_SymmetryAlwaysOkTrue ==
    tensor_ret[1] = "verify_holographic_symmetry" => tensor_ret[2] = OkBool(TRUE)

\* C10 (amended): for every content and every order of the axes,
\* compute_root_internal returns what it returns for the natural order, the
\* same root or the same Err; verify_holographic_symmetry never returns
\* Ok(false): it returns Ok(true) when the root is computed and that Err when
\* a cell's time root cannot be computed.
C10_SymmetryUnlessErr ==
    /\ \A dim_order \in AxisOrders : ComputeRootInternal(dim_order) = CalculateGlobalRoot
    /\ tensor_ret[1] = "verify_holographic_symmetry" =>
           tensor_ret[2] = IF CalculateGlobalRoot.ok THEN OkBool(TRUE)
                           ELSE [ok |-> FALSE, val |-> FALSE, err |-> CalculateGlobalRoot.err]

\* the symmetry check answered Ok(true) on a tensor of two or more axes whose
\* cells (0, 1, ..) and (1, 0, ..) both hold a non-trivial time root
C10_Witness ==
    /\ dimensions >= 2
    /\ tensor_ret = <<"verify_holographic_symmetry", OkBool(TRUE)>>
    /\ Cardinality(NonTrivialCells) >= 2

(***************************************************************************)
(* The audit log and the verifier: checkpoints are committed to the        *)
(* IncrementalMerkleTree, a prover answers with a StateTransitionProof,    *)
(* the proof may be altered on its way, and the verifier calls verify      *)
(* against the tree's root.                                                *)
(***************************************************************************)
MaxLeaves == 5

\* the replay logs a prover attaches: sequences of operators (P, Q)
ReplayLogs(d) ==
    LET op(p, q) == [p_factor |-> BigFromNat(p), q_shift |-> q]
        g == Form(2, 1, TruncDiv(1 - d, 8))
    IN  {<<>>, <<op(2, Identity(d))>>, <<op(2, g)>>, <<op(3, g), op(1, Identity(d))>>}

\* the digests of the committed checkpoints, in leaf order
LogLeaves == [k \in 1..Len(log_states) |-> LeafDigest(log_states[k])]

\* the checkpoint writer: hash the checkpoint and append the digest
LogAppend ==
    /\ leaf_count < MaxLeaves
    /\ proof = NoProof
    /\ \E checkpoint_state \in {Identity(discriminant),
                                Form(2, 1, TruncDiv(1 - discriminant, 8))} :
          /\ peaks' = AppendLoop(peaks, LeafDigest(checkpoint_state), 0)
          /\ log_states' = Append(log_states, checkpoint_state)
    /\ leaf_count' = leaf_count + 1
    /\ UNCHANGED <<discriminant, proof, tampered, verify_ret,
                   FuseVars, StreamVars, AlgVars, TensorVars, NeuronVars>>

\* the proof of the prover who replays replay_ops from checkpoint i
ProverProof(i, replay_ops, replayed) ==
    [checkpoint_state |-> log_states[i + 1],
     log_inclusion_proof |-> [leaf_index |-> i,
                              leaf_hash |-> LeafDigest(log_states[i + 1]),
                              siblings |-> PathSiblings(LogLeaves, peaks, i)],
     replay_ops |-> replay_ops,
     claimed_final_state |-> replayed.val]

MakeProof ==
    /\ proof = NoProof
    /\ \E i \in 0..(leaf_count - 1), replay_ops \in ReplayLogs(discriminant) :
          /\ Replay(log_states[i + 1], replay_ops, discriminant).ok
          /\ proof' = ProverProof(i, replay_ops,
                                  Replay(log_states[i + 1], replay_ops, discriminant))
    /\ UNCHANGED <<discriminant, peaks, leaf_count, log_states, tampered, verify_ret,
                   FuseVars, StreamVars, AlgVars, TensorVars, NeuronVars>>

\* another checkpoint_state is put in the proof, with the final state claimed
\* before or the one its replay ends in
TamperCheckpoint ==
    /\ proof # NoProof /\ tampered = "none"
    /\ \E cs \in ReducedForms(discriminant) \ {proof.checkpoint_state} :
       \E fin \in {proof.claimed_final_state}
                  \cup {r.val : r \in {x \in {Replay(cs, proof.replay_ops, discriminant)} : x.ok}} :
          proof' = [proof EXCEPT !.checkpoint_state = cs, !.claimed_final_state = fin]
    /\ tampered' = "checkpoint_state"
    /\ verify_ret' = "none"
    /\ UNCHANGED <<discriminant, peaks, leaf_count, log_states,
                   FuseVars, StreamVars, AlgVars, TensorVars, NeuronVars>>

\* another leaf_index is put in the inclusion proof
TamperIndex ==
    /\ proof # NoProof /\ tampered = "none"
    /\ \E i \in (0..(leaf_count - 1)) \ {proof.log_inclusion_proof.leaf_index} :
          proof' = [proof EXCEPT !.log_inclusion_proof.leaf_index = i]
    /\ tampered' = "leaf_index"
    /\ verify_ret' = "none"
    /\ UNCHANGED <<discriminant, peaks, leaf_count, log_states,
                   FuseVars, StreamVars, AlgVars, TensorVars, NeuronVars>>

\* one entry of the replay_ops of an accepted proof is changed, in its
\* p_factor or in its q_shift
TamperOp ==
    /\ verify_ret = "true" /\ tampered = "none"
    /\ \E k \in 1..Len(proof.replay_ops) :
          \/ \E p \in {BigFromNat(1), BigFromNat(2), BigFromNat(3)} \ {proof.replay_ops[k].p_factor} :
                proof' = [proof EXCEPT !.replay_ops[k].p_factor = p]
          \/ \E q \in ReducedForms(discriminant) \ {proof.replay_ops[k].q_shift} :
                proof' = [proof EXCEPT !.replay_ops[k].q_shift = q]
    /\ tampered' = "replay_ops"
    /\ verify_ret' = "none"
    /\ UNCHANGED <<discriminant, peaks, leaf_count, log_states,
                   FuseVars, StreamVars, AlgVars, TensorVars, NeuronVars>>

\* the claimed_final_state of an accepted proof is changed
TamperFinal ==
    /\ verify_ret = "true" /\ tampered = "none"
    /\ \E fin \in ReducedForms(discriminant) \ {proof.claimed_final_state} :
          proof' = [proof EXCEPT !.claimed_final_state = fin]
    /\ tampered' = "claimed_final_state"
    /\ verify_ret' = "none"
    /\ UNCHANGED <<discriminant, peaks, leaf_count, log_states,
                   FuseVars, StreamVars, AlgVars, TensorVars, NeuronVars>>

\* proof.verify(&tree.root(), &discriminant)
CallVerify ==
    /\ proof # NoProof /\ verify_ret = "none"
    /\ verify_ret' = Verify(proof, MerkleRoot(peaks, leaf_count), discriminant)
    /\ UNCHANGED <<discriminant, peaks, leaf_count, log_states, proof, tampered,
                   FuseVars, StreamVars, AlgVars, TensorVars, NeuronVars>>

InitProof ==
    /\ discriminant \in Discriminants
    /\ ProofIdle
    /\ FuseIdle /\ StreamIdle /\ AlgIdle /\ TensorIdle /\ NeuronIdle

SpecProof ==
    InitProof /\ [][LogAppend \/ MakeProof \/ TamperCheckpoint \/ TamperIndex
                    \/ TamperOp \/ TamperFinal \/ CallVerify]_vars

\* (1) of verify: the digest recomputed from checkpoint_state is the leaf_hash
BindingHolds ==
    LeafDigest(proof.checkpoint_state) = proof.log_inclusion_proof.leaf_hash

\* (2) of verify: the path recomputed from leaf_hash and siblings ends in the root
InclusionHolds ==
    VerifyPath(proof.log_inclusion_proof.leaf_hash, proof.log_inclusion_proof.leaf_index,
               proof.log_inclusion_proof.siblings) = MerkleRoot(peaks, leaf_count)

\* (3) of verify: there are states s0 .. sn, s0 the checkpoint_state, each next
\* one the Ok of apply_affine with the next entry, sn the claimed_final_state
ReplayHolds ==
    \E s \in [0..Len(proof.replay_ops) ->
                  ReducedForms(discriminant) \cup {proof.checkpoint_state}] :
        /\ s[0] = proof.checkpoint_state
        /\ \A k \in 1..Len(proof.replay_ops) :
              ApplyAffine(s[k - 1], proof.replay_ops[k].p_factor,
                          proof.replay_ops[k].q_shift, discriminant) = Ok(s[k])
        /\ s[Len(proof.replay_ops)] = proof.claimed_final_state

\* C1: verify makes its three checks in order and stops at the first that
\* fails: it returns true exactly when the digest of checkpoint_state is the
\* leaf_hash, the Merkle path ends in the given root, and the replay succeeds
\* at every step and ends in claimed_final_state; and the call changes
\* neither the proof nor the tree.
C1_VerifyChecksInOrder ==
    /\ [](
          verify_ret # "none" =>
              /\ verify_ret = "true" <=> (BindingHolds /\ InclusionHolds /\ ReplayHolds)
              /\ verify_ret = "false: binding" <=> ~BindingHolds
              /\ verify_ret = "false: merkle proof invalid" <=> (BindingHolds /\ ~InclusionHolds)
              /\ verify_ret \in {"false: replay error", "false: state mismatch"}
                    <=> (BindingHolds /\ InclusionHolds /\ ~ReplayHolds))
    /\ [][verify_ret' # verify_ret /\ verify_ret' # "none"
             => UNCHANGED <<peaks, leaf_count, log_states, proof, discriminant>>]_vars

C1_Witness ==
    /\ verify_ret = "true"
    /\ tampered = "none"
    /\ Len(proof.replay_ops) = 2
    /\ proof.log_inclusion_proof.siblings # <<>>

\* C6 (as claimed): a proof whose checkpoint_state is not the state whose
\* digest is the leaf_hash of its inclusion proof is never accepted.
C6_BindingRejectsOtherState ==
    (tampered = "checkpoint_state" /\ verify_ret # "none") => verify_ret # "true"

\* C7 (as claimed): an accepted proof is rejected once a single replay_ops
\* entry, or the claimed_final_state alone, is changed.
C7_TamperedReplayRejected ==
    (tampered \in {"replay_ops", "claimed_final_state"} /\ verify_ret # "none")
        => verify_ret # "true"

\* C8 (as claimed): for every leaf of the tree, the inclusion proof made of
\* its index, its digest and the siblings along its path verifies against
\* root().
C8_EveryLeafProofVerifies ==
    \A i \in 0..(leaf_count - 1) :
        MerkleProofVerify([leaf_index |-> i, leaf_hash |-> LogLeaves[i + 1],
                           siblings |-> PathSiblings(LogLeaves, peaks, i)],
                          MerkleRoot(peaks, leaf_count))

(***************************************************************************)
(* core/neuron.rs: HTPNeuron::activate, one action per loop iteration.     *)
(* The write locks on memory, semantic_root and commitment_buffer are      *)
(* held from the first action to the return.                               *)
(***************************************************************************)
CHUNK_SIZE == 64

RECURSIVE Annihilator(_, _)
\* has_small_order: the product of the primes p with lo <= p < hi
Annihilator(lo, hi) ==
    IF hi - lo <= 0 THEN <<1>>
    ELSE IF hi - lo = 1
    THEN (IF lo >= 2 /\ \A q \in 2..31 : (q < lo => lo % q # 0) THEN BigFromNat(lo) ELSE <<1>>)
    ELSE BigMul(Annihilator(lo, (lo + hi) \div 2), Annihilator((lo + hi) \div 2, hi))

\* has_small_order, the end: the match on self.pow(&annihilator)
SmallOrderJudgment(powered, d) ==
    IF powered.ok THEN powered.val = Identity(d) ELSE TRUE

HasSmallOrder(self, d, limit_val) ==
    IF self = Identity(d) THEN TRUE
    ELSE IF self.a = self.b \/ self.a = self.c \/ self.b = 0 THEN TRUE
    ELSE SmallOrderJudgment(Pow(self, Annihilator(2, limit_val), d), d)

\* ClassGroupElement::generator.  The prime the search starts from is a
\* digest; what the search does is either to return the reduced form of
\* some (p, b), which has passed the small-order filter, or to panic after
\* MAX_ATTEMPTS primes.
GeneratorOutcomes(d) ==
    {Err("panic: Unable to find valid generator")}
    \cup {Ok(f) : f \in {x \in ReducedForms(d) : ~HasSmallOrder(x, d, 1000)}}

\* `?`: the rest of the function on an Ok, its return on an Err
Try(r, Rest(_)) == IF r.ok THEN Rest(r.val) ELSE ErrTuple(r.err)

\* evolve_tuple_blinded with the blind_exp drawn by the rng
EvolveTupleBlinded(tuple, weight, blind_exp, d) ==
    Try(generator_ret, LAMBDA generator :
    Try(Pow(generator, blind_exp, d), LAMBDA r_blind :
    Try(Compose(tuple.q_shift, r_blind, d), LAMBDA q_blinded :
    Try(Pow(q_blinded, weight, d), LAMBDA q_prime_blinded :
    Try(Pow(r_blind, weight, d), LAMBDA r_w :
        AffineResult(BigMul(tuple.p_factor, weight),
                     Compose(q_prime_blinded, Form(r_w.a, -r_w.b, r_w.c), d)))))))

GenerateSpacetimeNoise(step, d) ==
    Try(generator_ret, LAMBDA g :
        AffineResult(<<1>>, Pow(g, BigFromNat(step + 1), d)))

\* the loop body of activate up to step_op
StepOp(tuple, step, blind_exp, d) ==
    Try(EvolveTupleBlinded(tuple, p_weight, blind_exp, d), LAMBDA weighted_tuple :
    Try(GenerateSpacetimeNoise(step, d), LAMBDA time_noise :
        AffineCompose(weighted_tuple, time_noise, d)))

\* the loop body of activate from step_op to the new *s_guard
StepState(step_op, d) ==
    Try(step_op, LAMBDA op : ApplyAffine(semantic_root, op.p_factor, op.q_shift, d))

\* the condition of activate under which a checkpoint is written, but for
\* the end of the stream
CheckpointDueWhenFull(buffer_len, step, stream_len_) == buffer_len >= CHUNK_SIZE

\* the condition of activate under which a checkpoint is written
CheckpointDue(buffer_len, step, stream_len_) ==
    buffer_len >= CHUNK_SIZE \/ step = stream_len_ - 1

\* the operators of the streams: each stream repeats one of them
StreamOperators(d) ==
    {AffineTuple(BigFromNat(2), Identity(d)),
     AffineTuple(BigFromNat(3), Form(3, 3, TruncDiv(9 - d, 12))),
     AffineTuple(BigPow2(MAX_CHUNK_P_BITS), Identity(d))}

\* the values of rng.gen::<u64>()
BlindExps == {<<>>, BigFromNat(1), BigFromNat(3)}

\* HTPNeuron::new, and what earlier activations may have left in
\* semantic_root and commitment_buffer
InitNeuron ==
    /\ discriminant \in {-39}
    /\ generator_ret \in GeneratorOutcomes(discriminant)
    /\ p_weight \in {BigFromNat(2), BigFromNat(3)}
    /\ dimensions = 1
    /\ side_length \in {1, 2}
    /\ data = <<>>
    /\ tensor_ret = <<"new">>
    /\ semantic_root \in {Identity(discriminant), Form(2, 1, TruncDiv(1 - discriminant, 8))}
    /\ commitment_buffer \in {<<>>, <<AffineIdentity(discriminant)>>}
    /\ input_stream = <<>>
    /\ loop_t = 0
    /\ neuron_pc = "idle"
    /\ emitted = <<>>
    /\ activate_ret = ErrTuple("")
    /\ readers = NoReaders
    /\ threads = NoThreads
    /\ poisoned = {}
    /\ FuseIdle /\ StreamIdle /\ AlgIdle /\ ProofIdle

\* activate up to the loop: the locks are taken, the state is reset
ActivateStart ==
    /\ neuron_pc = "idle"
    /\ readers = NoReaders
    /\ \E n \in {0, 1, 64, 65, 130}, op \in StreamOperators(discriminant) :
          input_stream' = [k \in 1..n |-> op]
    /\ semantic_root' = Identity(discriminant)
    /\ commitment_buffer' = <<>>
    /\ loop_t' = 0
    /\ emitted' = <<>>
    /\ neuron_pc' = "loop"
    /\ UNCHANGED <<discriminant, p_weight, generator_ret, activate_ret, readers, threads, poisoned,
                   FuseVars, StreamVars, AlgVars, TensorVars, ProofVars>>

\* the loop body of activate after step_op and the new state s_new: a `?`
\* that returns, or the assignment, the push and the checkpoint
StepCommit(step_op, s_new) ==
    IF ~s_new.ok
    THEN /\ activate_ret' = ErrTuple(s_new.err)
         /\ neuron_pc' = "returned"
         /\ UNCHANGED <<semantic_root, commitment_buffer, loop_t, emitted, data, tensor_ret>>
    ELSE /\ semantic_root' = s_new.val
         /\ loop_t' = loop_t + 1
         /\ IF CheckpointDue(Len(commitment_buffer) + 1, loop_t, Len(input_stream))
            THEN /\ \E val \in 0..MaxHash :
                       data' = AppendAt(MapIdToCoordHash(val), AffineTuple(<<1>>, s_new.val))
                 /\ tensor_ret' = <<"insert">>
                 /\ commitment_buffer' = <<>>
                 /\ emitted' = Append(emitted, loop_t)
            ELSE /\ commitment_buffer' = Append(commitment_buffer, step_op.val)
                 /\ UNCHANGED <<data, tensor_ret, emitted>>
         /\ UNCHANGED <<neuron_pc, activate_ret>>

\* one iteration of the loop of activate
ActivateStep ==
    /\ neuron_pc = "loop"
    /\ loop_t < Len(input_stream)
    /\ \E blind_exp \in BlindExps :
          StepCommit(StepOp(input_stream[loop_t + 1], loop_t, blind_exp, discriminant),
                     StepState(StepOp(input_stream[loop_t + 1], loop_t, blind_exp, discriminant),
                               discriminant))
    /\ UNCHANGED <<discriminant, dimensions, side_length, p_weight, generator_ret, input_stream,
                   readers, threads, poisoned, FuseVars, StreamVars, AlgVars, ProofVars>>

\* get_segment_tree_path
GetSegmentTreePath(coord) ==
    IF coord \in DOMAIN data /\ TreeRoot(data[coord], discriminant).ok
    THEN <<TreeRoot(data[coord], discriminant).val>>
    ELSE <<AffineIdentity(discriminant)>>

\* activate after the loop, given calculate_global_root's result
ActivateReturn(raw_tensor_root) ==
    IF ~raw_tensor_root.ok THEN ErrTuple(raw_tensor_root.err)
    ELSE [ok |-> TRUE, err |-> "",
          val |-> AffineTuple(<<1>>, semantic_root),
          primary_path |-> GetSegmentTreePath([i \in 1..dimensions |-> 0])]

ActivateFinish ==
    /\ neuron_pc = "loop"
    /\ loop_t = Len(input_stream)
    /\ tensor_ret' = <<"calculate_global_root", CalculateGlobalRoot>>
    /\ activate_ret' = ActivateReturn(CalculateGlobalRoot)
    /\ neuron_pc' = "returned"
    /\ UNCHANGED <<discriminant, dimensions, side_length, data, p_weight, semantic_root,
                   commitment_buffer, generator_ret, input_stream, loop_t, emitted, readers, threads, poisoned,
                   FuseVars, StreamVars, AlgVars, ProofVars>>

\* a read guard handed out whatever the writer holds
ReadLockAlwaysFree(pc) == TRUE

\* memory.read() returns a guard: no thread holds the write guard, which
\* activate takes on entry and drops when it returns
ReadLockFree(pc) == pc # "loop"

\* suggest_candidates or query_spatial_neighbors takes the memory read guard
\* and iterates over the data it guards
OracleAcquire ==
    /\ ReadLockFree(neuron_pc)
    /\ \E r \in 1..MaxOracles, query \in {"suggest_candidates", "query_spatial_neighbors"} :
          /\ readers[r] = <<"idle">>
          /\ readers' = [readers EXCEPT ![r] = <<"reading", query, data>>]
    /\ UNCHANGED <<discriminant, p_weight, semantic_root, commitment_buffer, generator_ret,
                   input_stream, loop_t, neuron_pc, emitted, activate_ret,
                   threads, poisoned, FuseVars, StreamVars, AlgVars, TensorVars, ProofVars>>

\* the query returns and its guard is dropped
OracleReturn ==
    /\ \E r \in 1..MaxOracles :
          /\ readers[r][1] = "reading"
          /\ readers' = [readers EXCEPT ![r] = <<"idle">>]
    /\ UNCHANGED <<discriminant, p_weight, semantic_root, commitment_buffer, generator_ret,
                   input_stream, loop_t, neuron_pc, emitted, activate_ret,
                   threads, poisoned, FuseVars, StreamVars, AlgVars, TensorVars, ProofVars>>

SpecNeuron ==
    InitNeuron /\ [][ActivateStart \/ ActivateStep \/ ActivateFinish
                     \/ OracleAcquire \/ OracleReturn]_vars

\* the iterations before `done` at which a stream of n operators has 64
\* operators buffered since the last checkpoint, or ends
DueSteps(done, n) == {k \in 0..(done - 1) : (k + 1) % 64 = 0 \/ k = n - 1}

MaxHistory == 3

\* the leaves appended after the first: P-factors 1, 2, 3 and a Q-shift
HistoryTuples(d) ==
    {AffineTuple(BigFromNat(3), Identity(d)),
     AffineTuple(BigFromNat(2), Form(2, 1, TruncDiv(1 - d, 8))),
     AffineTuple(<<1>>, Form(2, -1, TruncDiv(1 - d, 8)))}

\* the one cell of a tensor of a single coordinate
History == IF <<0>> \in DOMAIN data THEN data[<<0>>] ELSE <<>>

\* TimeSegmentTree::append on the cell's tree; a history may open with the
\* P-factor 2^4092, of 4093 bits: with two leaves of P = 3 the widths sum to
\* MAX_CHUNK_P_BITS + 1 before any product is taken
TreeAppend ==
    /\ Len(History) < MaxHistory
    /\ \E new_tuple \in HistoryTuples(discriminant)
                          \cup (IF History = <<>>
                                THEN {AffineTuple(BigPow2(MAX_CHUNK_P_BITS - 4),
                                                  Identity(discriminant))}
                                ELSE {}) :
           data' = AppendAt(<<0>>, new_tuple)
    /\ tensor_ret' = <<"append">>
    /\ UNCHANGED <<discriminant, dimensions, side_length, FuseVars, StreamVars, AlgVars, ProofVars, NeuronVars>>

\* TimeSegmentTree::root on the cell's tree
CallRoot ==
    /\ tensor_ret' = <<"root", TreeRoot(History, discriminant)>>
    /\ UNCHANGED <<discriminant, dimensions, side_length, data,
                   FuseVars, StreamVars, AlgVars, ProofVars, NeuronVars>>

\* mutate_network on the neuron owning the tensor, for a mutation that is
\* drawn and accepted: the weight is replaced, by an elite gene or a fresh
\* prime, and the memory is cleared (a mutation not drawn, or rejected by its
\* filter, changes nothing)
MutateNetwork ==
    /\ readers = NoReaders
    /\ \E new_prime \in {BigFromNat(3), BigFromNat(5)} : p_weight' = new_prime
    /\ data' = <<>>
    /\ tensor_ret' = <<"mutate_network">>
    /\ UNCHANGED <<discriminant, dimensions, side_length, semantic_root, commitment_buffer,
                   generator_ret, input_stream, loop_t, neuron_pc, emitted, activate_ret,
                   readers, threads, poisoned, FuseVars, StreamVars, AlgVars, ProofVars>>

\* HTPNeuron::new with a tensor of one coordinate, no activation running
InitHistory ==
    /\ discriminant \in Discriminants
    /\ dimensions = 1
    /\ side_length = 1
    /\ data = <<>>
    /\ tensor_ret = <<"new">>
    /\ p_weight = BigFromNat(3)
    /\ semantic_root = Identity(discriminant)
    /\ commitment_buffer = <<>>
    /\ generator_ret = Err("")
    /\ input_stream = <<>>
    /\ loop_t = 0
    /\ neuron_pc = "idle"
    /\ emitted = <<>>
    /\ activate_ret = ErrTuple("")
    /\ readers = NoReaders
    /\ threads = NoThreads
    /\ poisoned = {}
    /\ FuseIdle /\ StreamIdle /\ AlgIdle /\ ProofIdle

SpecHistory == InitHistory /\ [][TreeAppend \/ CallRoot \/ MutateNetwork]_vars

RECURSIVE FoldOf(_, _)
\* the strictly left-to-right fold ((l0 + l1) + l2) + ... of a history under
\* AffineTuple::compose, `?` on every step
FoldOf(leaves, d) ==
    IF leaves = <<>> THEN OkTuple(AffineIdentity(d))
    ELSE IF Len(leaves) = 1 THEN OkTuple(leaves[1])
    ELSE IF ~FoldOf(SubSeq(leaves, 1, Len(leaves) - 1), d).ok
    THEN FoldOf(SubSeq(leaves, 1, Len(leaves) - 1), d)
    ELSE AffineCompose(FoldOf(SubSeq(leaves, 1, Len(leaves) - 1), d).val,
                       leaves[Len(leaves)], d)

\* C11: TimeSegmentTree::root returns what the strictly left-to-right fold of
\* the leaves under AffineTuple::compose returns, the same tuple or a failure
\* in the same cases; the root of no leaves is the identity tuple and the root
\* of one leaf is that leaf
C11_RootIsLeftFold ==
    (tensor_ret[1] = "root") =>
        /\ tensor_ret[2].ok = FoldOf(History, discriminant).ok
        /\ tensor_ret[2].ok => tensor_ret[2] = FoldOf(History, discriminant)
        /\ History = <<>> => tensor_ret[2] = OkTuple(AffineIdentity(discriminant))
        /\ Len(History) = 1 => tensor_ret[2] = OkTuple(History[1])

\* C12: the history of a coordinate is append-only: over every operation on
\* the neuron's tensor the earlier leaf sequence of each coordinate's
\* TimeSegmentTree is a prefix of the later one
C12_HistoryAppendOnly ==
    [][\A coord \in DOMAIN data :
          /\ coord \in DOMAIN data'
          /\ Len(data[coord]) <= Len(data'[coord])
          /\ SubSeq(data'[coord], 1, Len(data[coord])) = data[coord]]_vars

\* C13: the IncrementalMerkleTree is an append-only binary counter of peaks:
\* peaks[h] is occupied exactly when bit h of leaf_count is 1, there are at
\* most floor(log2 n) + 1 peaks, an empty tree has leaf_count 0 and the
\* all-zero root, every append adds exactly 1 to leaf_count and nothing
\* decreases it
C13_PeaksAreBinaryCounter ==
    /\ [](/\ Len(peaks) = NatBits(leaf_count)
          /\ \A h \in 0..(Len(peaks) - 1) :
                (peaks[h + 1] # None) <=> ((leaf_count \div (2 ^ h)) % 2 = 1)
          /\ leaf_count = Len(log_states)
          /\ leaf_count = 0 => (peaks = <<>> /\ MerkleRoot(peaks, leaf_count) = ZeroDigest))
    /\ [][/\ leaf_count' >= leaf_count
          /\ (peaks' # peaks \/ log_states' # log_states) => leaf_count' = leaf_count + 1]_vars

C13_Witness ==
    /\ leaf_count = 5
    /\ peaks[1] # None
    /\ peaks[2] = None
    /\ peaks[3] # None

RECURSIVE PeaksOf(_)
\* the peaks of a new tree after append of every digest of leaves, in order
PeaksOf(leaves) ==
    IF leaves = <<>> THEN <<>>
    ELSE AppendLoop(PeaksOf(SubSeq(leaves, 1, Len(leaves) - 1)), leaves[Len(leaves)], 0)

\* C14: the root is a function of the appended digest sequence alone and
\* depends on every leaf: a tree built from the same digests in the same
\* order has the same root, computing the root changes nothing in the tree,
\* and replacing any one digest by a different digest gives a different root
\* (every log is compared with its variants before a proof is drawn from it:
\* a log no longer grows afterwards)
C14_RootBindsEveryLeaf ==
    /\ [](/\ MerkleRoot(PeaksOf(LogLeaves), Len(LogLeaves)) = MerkleRoot(peaks, leaf_count)
          /\ proof = NoProof =>
              \A i \in 1..Len(LogLeaves) :
                \A other \in {LeafDigest(Identity(discriminant)),
                               LeafDigest(Form(2, 1, TruncDiv(1 - discriminant, 8))),
                               ZeroDigest} \ {LogLeaves[i]} :
                    MerkleRoot(PeaksOf([LogLeaves EXCEPT ![i] = other]), Len(LogLeaves))
                        # MerkleRoot(peaks, leaf_count))
    /\ [][(proof' # proof \/ verify_ret' # verify_ret)
             => (peaks' = peaks /\ leaf_count' = leaf_count)]_vars

C14_Witness ==
    /\ leaf_count = 5
    /\ log_states[1] # log_states[5]
    /\ verify_ret # "none"

\* C15: activate holds the memory, accumulator and buffer write guards from
\* its entry to its return, so a suggest_candidates or query_spatial_neighbors
\* on the same neuron never holds its read guard while an activation is in
\* progress, the data it iterates over does not change under it, and what it
\* sees holds none of the checkpoints of an activation or all the activation
\* wrote (ceil(N / 64) of them when it returned Ok); several queries may
\* hold the read guard together
C15_QueriesExcludeActivate ==
    \A r \in 1..MaxOracles :
        readers[r][1] = "reading" =>
            /\ neuron_pc \in {"idle", "returned"}
            /\ readers[r][3] = data
            /\ neuron_pc = "idle" => readers[r][3] = <<>>
            /\ neuron_pc = "returned" =>
                  /\ LeafCount(DOMAIN data) = Len(emitted)
                  /\ activate_ret.ok => Len(emitted) = (Len(input_stream) + 63) \div 64

C15_Witness ==
    /\ \A r \in 1..MaxOracles : readers[r][1] = "reading"
    /\ neuron_pc = "returned"
    /\ activate_ret.ok
    /\ Len(emitted) = 3

(***************************************************************************)
(* The group laws of compose, pow and commutative_merge on reduced forms   *)
(***************************************************************************)
\* C16: compose is associative: for reduced primitive forms f, g, h both
\* compose(compose(f, g), h) and compose(f, compose(g, h)) succeed and
\* return the same element
C16_ComposeAssociative ==
    (/\ alg_call[1] = "compose"
     /\ alg_call[2] \in ReducedForms(discriminant)
     /\ alg_call[3] \in ReducedForms(discriminant)) =>
        /\ alg_ret.ok
        /\ \A h \in ReducedForms(discriminant) :
              /\ Compose(alg_call[3], h, discriminant).ok
              /\ Compose(alg_ret.val, h, discriminant).ok
              /\ Compose(alg_ret.val, h, discriminant)
                    = Compose(alg_call[2], Compose(alg_call[3], h, discriminant).val,
                              discriminant)

\* C17: the identity is neutral and (a, -b, c) is the inverse of (a, b, c):
\* for a reduced primitive form f, compose(f, identity) and
\* compose(identity, f) return f and compose(f, (a, -b, c)) returns the
\* identity
C17_IdentityAndInverse ==
    /\ (/\ alg_call[1] = "compose"
        /\ alg_call[2] \in ReducedForms(discriminant)) =>
           /\ alg_call[3] = Identity(discriminant) => alg_ret = Ok(alg_call[2])
           /\ alg_call[3] = Form(alg_call[2].a, -alg_call[2].b, alg_call[2].c)
                 => alg_ret = Ok(Identity(discriminant))
    /\ (/\ alg_call[1] = "compose"
        /\ alg_call[2] = Identity(discriminant)
        /\ alg_call[3] \in ReducedForms(discriminant)) =>
           alg_ret = Ok(alg_call[3])

C17_Witness ==
    /\ alg_call[1] = "compose"
    /\ alg_call[2] = Form(2, 1, TruncDiv(1 - discriminant, 8))
    /\ alg_call[3] = Form(2, -1, TruncDiv(1 - discriminant, 8))
    /\ alg_ret = Ok(Identity(discriminant))

\* C18: pow is the exponentiation of compose: for a reduced primitive form
\* f, pow(f, 0) is the identity, pow(f, 1) is f, pow(f, 2) is square(f) and
\* compose(f, f), each returned Ok, and pow(f, x + y) is
\* compose(pow(f, x), pow(f, y))
C18_PowIsRepeatedCompose ==
    (/\ alg_call[1] = "pow"
     /\ alg_call[2] \in ReducedForms(discriminant)) =>
        /\ alg_call[3] = <<>> => alg_ret = Ok(Identity(discriminant))
        /\ alg_call[3] = BigFromNat(1) => alg_ret = Ok(alg_call[2])
        /\ alg_call[3] = BigFromNat(2) =>
              /\ alg_ret.ok
              /\ alg_ret = Square(alg_call[2], discriminant)
              /\ alg_ret = Compose(alg_call[2], alg_call[2], discriminant)
        /\ \A y \in AlgExponents :
              /\ alg_ret.ok
              /\ Pow(alg_call[2], y, discriminant).ok
              /\ Pow(alg_call[2], BigAdd(alg_call[3], y), discriminant)
                    = Compose(alg_ret.val, Pow(alg_call[2], y, discriminant).val,
                              discriminant)

\* C19: commutative_merge does not depend on the order: for tuples x, y, z
\* whose Q-shifts are reduced primitive forms, merge(x, y) = merge(y, x) and
\* merge(merge(x, y), z) = merge(x, merge(y, z)), each succeeding
C19_MergeOrderIndependent ==
    (/\ alg_call[1] = "compose"
     /\ alg_call[2] \in ReducedForms(discriminant)
     /\ alg_call[3] \in ReducedForms(discriminant)) =>
        \A px \in {BigFromNat(2)}, py \in {BigFromNat(3)} :
            /\ CommutativeMerge(AffineTuple(px, alg_call[2]), AffineTuple(py, alg_call[3]),
                                discriminant)
                  = AffineResult(BigMul(px, py), alg_ret)
            /\ alg_ret.ok
            /\ CommutativeMerge(AffineTuple(px, alg_call[2]), AffineTuple(py, alg_call[3]),
                                discriminant)
                  = CommutativeMerge(AffineTuple(py, alg_call[3]), AffineTuple(px, alg_call[2]),
                                     discriminant)
            /\ \A z \in {AffineTuple(BigFromNat(5), h) : h \in ReducedForms(discriminant)} :
                  /\ CommutativeMerge(AffineTuple(py, alg_call[3]), z, discriminant).ok
                  /\ CommutativeMerge(AffineTuple(BigMul(px, py), alg_ret.val), z, discriminant)
                        = CommutativeMerge(
                              AffineTuple(px, alg_call[2]),
                              CommutativeMerge(AffineTuple(py, alg_call[3]), z, discriminant).val,
                              discriminant)
                  /\ CommutativeMerge(AffineTuple(BigMul(px, py), alg_ret.val), z,
                                      discriminant).ok

\* C20: reduce_form returns an already reduced primitive form as it is:
\* reduce_form(a, b, D) = Ok((a, b, c)) for every reduced primitive (a, b, c)
C20_ReduceKeepsReducedForm ==
    alg_call[1] = "reduce_form" => alg_ret = Ok(alg_call[2])

C20_Witness ==
    /\ alg_call[1] = "reduce_form"
    /\ alg_call[2].a = 3
    /\ alg_call[2].b = -1
    /\ alg_ret.ok

(***************************************************************************)
(* core/param.rs: SystemParameters                                         *)
(***************************************************************************)
MIN_DISCRIMINANT_BITS == 3072

MAX_ATTEMPTS == 10000000

\* generate_internal.  first_hit is the first attempt whose candidate, the
\* XOF output with bit bit_size - 1 set, is 3 mod 4 and probably prime: the
\* loop returns -candidate there, or panics once attempt > max_attempts
GenerateInternal(seed_bytes, bit_size, first_hit) ==
    IF first_hit > MAX_ATTEMPTS
    THEN [kind |-> "panic", msg |-> "Failed to generate System Parameters"]
    ELSE [kind |-> "params",
          discriminant |-> <<"-candidate", seed_bytes, first_hit, bit_size>>]

\* from_random_seed
FromRandomSeed(seed_bytes, bit_size, first_hit) ==
    IF bit_size < 2048
    THEN [kind |-> "panic", msg |-> "SECURITY VIOLATION: Discriminant size must be >= 2048 bits"]
    ELSE GenerateInternal(seed_bytes, bit_size, first_hit)

\* a verify_vdf that judges a proof by its presence alone
VerifyVdfPresence(input, output, vdf_proof, production_vdf, vdf_verdict) ==
    input # <<>> /\ output # <<>> /\ vdf_proof # <<>>

\* verify_vdf.  With the feature production_vdf the verdict is vdf_verify's,
\* without it the proof is compared with the hash binding input and output
VerifyVdf(input, output, vdf_proof, production_vdf, vdf_verdict) ==
    IF input = <<>> \/ output = <<>> \/ vdf_proof = <<>> THEN FALSE
    ELSE IF production_vdf THEN vdf_verdict = "Ok(true)"
    ELSE vdf_proof = <<"EVOLVER_VDF_SIMULATION_BINDING", input, output>>

\* derive_trustless_discriminant, given the verdict of verify_vdf
DeriveTrustlessDiscriminant(beacon_block_hash, vdf_output, verified, first_hit) ==
    IF ~verified
    THEN [kind |-> "err", msg |-> "FATAL: VDF Proof Invalid"]
    ELSE GenerateInternal(<<"Evolver_v1_System_Discriminant_Generation_DST",
                            "::TRUSTLESS_SETUP::PHASE_1::", beacon_block_hash, vdf_output>>,
                          MIN_DISCRIMINANT_BITS, first_hit)

\* the attempts at which the first good candidate is found
FirstHits == {0, 1, MAX_ATTEMPTS, MAX_ATTEMPTS + 1}

CallFromRandomSeed ==
    /\ alg_call = <<"none">>
    /\ \E seed_bytes \in {<<>>, <<7>>}, bit_size \in {0, 2047, 2048, 3072},
          first_hit \in FirstHits :
           /\ alg_call' = <<"from_random_seed", seed_bytes, bit_size>>
           /\ alg_ret' = FromRandomSeed(seed_bytes, bit_size, first_hit)
    /\ UNCHANGED <<discriminant, FuseVars, StreamVars, TensorVars, ProofVars, NeuronVars>>

CallDeriveTrustlessDiscriminant ==
    /\ alg_call = <<"none">>
    /\ \E beacon_block_hash \in {<<>>, <<1>>}, vdf_output \in {<<>>, <<2>>, <<3>>},
          vdf_proof \in {<<>>, <<4>>, <<"EVOLVER_VDF_SIMULATION_BINDING", <<1>>, <<2>>>>},
          production_vdf \in BOOLEAN, vdf_verdict \in {"Ok(true)", "Ok(false)", "Err"},
          first_hit \in FirstHits :
           /\ alg_call' = <<"derive_trustless_discriminant", beacon_block_hash, vdf_output,
                            vdf_proof, production_vdf, vdf_verdict>>
           /\ alg_ret' = DeriveTrustlessDiscriminant(
                             beacon_block_hash, vdf_output,
                             VerifyVdf(beacon_block_hash, vdf_output, vdf_proof,
                                       production_vdf, vdf_verdict),
                             first_hit)
    /\ UNCHANGED <<discriminant, FuseVars, StreamVars, TensorVars, ProofVars, NeuronVars>>

\* no SystemParameters exist yet: the discriminant is what the calls produce
InitParam ==
    /\ discriminant = 0
    /\ AlgIdle /\ FuseIdle /\ StreamIdle /\ TensorIdle /\ ProofIdle /\ NeuronIdle

SpecParam == InitParam /\ [][CallFromRandomSeed \/ CallDeriveTrustlessDiscriminant]_vars

\* C21: parameter generation fails closed: from_random_seed with
\* bit_size < 2048 aborts and derives nothing; derive_trustless_discriminant
\* returns its error and derives nothing when the beacon hash, the VDF
\* output or the VDF proof is empty or the time-lock proof does not verify;
\* the trustless path produces a discriminant only after verification
\* succeeded, and then of MIN_DISCRIMINANT_BITS bits
C21_ParametersFailClosed ==
    /\ (alg_call[1] = "from_random_seed" /\ alg_call[3] < 2048) =>
           (alg_ret.kind = "panic" /\ alg_ret.msg # "Failed to generate System Parameters")
    /\ alg_call[1] = "derive_trustless_discriminant" =>
          /\ (alg_call[2] = <<>> \/ alg_call[3] = <<>> \/ alg_call[4] = <<>>)
                => alg_ret.kind = "err"
          /\ (alg_call[5] /\ alg_call[6] # "Ok(true)") => alg_ret.kind = "err"
          /\ (~alg_call[5]
                 /\ alg_call[4] # <<"EVOLVER_VDF_SIMULATION_BINDING", alg_call[2], alg_call[3]>>)
                => alg_ret.kind = "err"
          /\ alg_ret.kind = "params" =>
                /\ alg_call[2] # <<>> /\ alg_call[3] # <<>> /\ alg_call[4] # <<>>
                /\ IF alg_call[5] THEN alg_call[6] = "Ok(true)"
                   ELSE alg_call[4]
                           = <<"EVOLVER_VDF_SIMULATION_BINDING", alg_call[2], alg_call[3]>>
                /\ alg_ret.discriminant[4] = MIN_DISCRIMINANT_BITS

C21_Witness ==
    /\ alg_call[1] = "derive_trustless_discriminant"
    /\ alg_call[5]
    /\ alg_call[6] = "Err"
    /\ alg_call[4] # <<>>
    /\ alg_ret.kind = "err"

(***************************************************************************)
(* core/primes.rs: hash_to_prime.  The XOF output of nonce k is an input:  *)
(* head[k + 1] for the first nonces, rest for every later one.             *)
(***************************************************************************)
OPTIMAL_SEARCH_LIMIT == 1000

\* Integer::set_bit(k, true)
SetBit(x, k) == IF (x \div (2 ^ k)) % 2 = 1 THEN x ELSE x + 2 ^ k

\* is_probably_prime(25) != IsPrime::No, exact on the integers of the model
IsPrime(n) == n >= 2 /\ \A q \in 2..(n - 1) : q * q > n \/ n % q # 0

RECURSIVE NextPrime(_)
\* Integer::next_prime: the least prime above n
NextPrime(n) == IF IsPrime(n + 1) THEN n + 1 ELSE NextPrime(n + 1)

\* the candidate made of an XOF output: top and bottom bit forced
PrimeCandidate(entropy, bit_size) == SetBit(SetBit(entropy, bit_size - 1), 0)

\* one probe of phase 1: the small-prime sieve, then Miller-Rabin
ProbeAccepts(candidate) == candidate % 3 # 0 /\ candidate % 5 # 0 /\ IsPrime(candidate)

\* hash_to_prime: phase 1 over the nonces 0 .. 999, then the fallback scan
HashToPrime(head, rest, fallback, bit_size) ==
    LET hits == {k \in 1..Len(head) : ProbeAccepts(PrimeCandidate(head[k], bit_size))}
    IN  IF hits # {}
        THEN [ok |-> TRUE, path |-> "probe",
              probes |-> CHOOSE k \in hits : \A j \in hits : k <= j,
              val |-> PrimeCandidate(head[CHOOSE k \in hits : \A j \in hits : k <= j], bit_size)]
        ELSE IF Len(head) < OPTIMAL_SEARCH_LIMIT /\ ProbeAccepts(PrimeCandidate(rest, bit_size))
        THEN [ok |-> TRUE, path |-> "probe", probes |-> Len(head) + 1,
              val |-> PrimeCandidate(rest, bit_size)]
        ELSE [ok |-> TRUE, path |-> "fallback", probes |-> OPTIMAL_SEARCH_LIMIT,
              val |-> NextPrime(PrimeCandidate(fallback, bit_size))]

\* the largest bit_size asked for
MaxBits == 8

\* XOF outputs of one byte
XofBytes == {0, 8, 121, 131, 251}

CallHashToPrime ==
    /\ alg_call = <<"none">>
    /\ \E bit_size \in 2..MaxBits, rest \in XofBytes, fallback \in XofBytes,
          head \in {<<>>} \cup {<<x>> : x \in XofBytes} :
           /\ alg_call' = <<"hash_to_prime", head, rest, fallback, bit_size>>
           /\ alg_ret' = HashToPrime(head, rest, fallback, bit_size)
    /\ UNCHANGED <<discriminant, FuseVars, StreamVars, TensorVars, ProofVars, NeuronVars>>

SpecPrimes == InitParam /\ [][CallHashToPrime]_vars

\* C22: hash_to_prime is total and well-formed: for every input and every
\* bit_size >= 2 it returns Ok after at most 1000 probes and one fallback
\* scan, and the integer returned is prime and has exactly bit_size
\* significant bits, on the probing path and on the fallback path
C22_PrimeOfRequestedWidth ==
    alg_call[1] = "hash_to_prime" =>
        /\ alg_ret.ok
        /\ alg_ret.probes <= OPTIMAL_SEARCH_LIMIT
        /\ IsPrime(alg_ret.val)
        /\ NatBits(alg_ret.val) = alg_call[5]

(***************************************************************************)
(* Closure of the class-group operations on valid elements                 *)
(***************************************************************************)
\* C23: the class-group operations are closed on valid elements: compose of
\* two reduced primitive forms (a form with itself included) returns Ok,
\* square of a reduced primitive form returns Ok, and so pow and
\* apply_affine never fail on a valid state with a valid operator
C23_OperationsClosed ==
    /\ (/\ alg_call[1] = "compose"
        /\ alg_call[2] \in ReducedForms(discriminant)
        /\ alg_call[3] \in ReducedForms(discriminant)) => alg_ret.ok
    /\ (/\ alg_call[1] \in {"square", "pow"}
        /\ alg_call[2] \in ReducedForms(discriminant)) => alg_ret.ok
    /\ (/\ alg_call[1] = "apply_affine"
        /\ alg_call[2] \in ReducedForms(discriminant)
        /\ alg_call[4] \in ReducedForms(discriminant)) => alg_ret.ok

(***************************************************************************)
(* reduce_form, one loop iteration at a time.  alg_call holds the position *)
(* of the call: <<"reduce_loop", a, b, c, safety_counter, divisible>> while *)
(* the loop runs, <<"reduce_returned", ...>> once it has returned.         *)
(***************************************************************************)
\* the largest a reduce_form is called with
MaxReduceA == 30

\* the loop condition
ReduceContinues(a, b, c) == a > c \/ (a = c /\ b < 0)

\* an iteration that keeps a
ReduceKeepA(a, c) == a

\* a_new of one iteration
ReduceNewA(a, c) == c

\* reduce_form is entered: b is normalised and c computed, or the call
\* returns the divisibility error
ReduceEnter ==
    /\ alg_call = <<"none">>
    /\ \E a \in 1..MaxReduceA : \E b \in (-(2 * a))..(2 * a) :
          IF TruncRem(NormalizeB(RemEuc(b, 2 * a), a) * NormalizeB(RemEuc(b, 2 * a), a)
                         - discriminant, 4 * a) # 0
          THEN /\ alg_call' = <<"reduce_returned", a, b, 0, 0, FALSE>>
               /\ alg_ret' = Err("Invariant Violated: (b^2 - D) not divisible by 4a")
          ELSE /\ alg_call' = <<"reduce_loop", a, NormalizeB(RemEuc(b, 2 * a), a),
                                 TruncDiv(NormalizeB(RemEuc(b, 2 * a), a)
                                              * NormalizeB(RemEuc(b, 2 * a), a)
                                          - discriminant, 4 * a), 0, TRUE>>
               /\ alg_ret' = alg_ret
    /\ UNCHANGED <<discriminant, FuseVars, StreamVars, TensorVars, ProofVars, NeuronVars>>

\* one iteration of the reduction loop
ReduceIterate ==
    /\ alg_call[1] = "reduce_loop"
    /\ ReduceContinues(alg_call[2], alg_call[3], alg_call[4])
    /\ LET a == alg_call[2]
           b == alg_call[3]
           c == alg_call[4]
           safety_counter == alg_call[5]
           a_new == ReduceNewA(a, c)
           b_new == 2 * c * FloorDiv(c + b, 2 * c) - b
           returns(e) == /\ alg_call' = <<"reduce_returned", a, b, c, safety_counter,
                                          alg_call[6]>>
                         /\ alg_ret' = Err(e)
       IN  IF safety_counter > MAX_STEPS
           THEN returns("Critical Error: Reduction loop diverged")
           ELSE IF 2 * c = 0
           THEN returns("Math Error: Division by zero in reduction (c=0)")
           ELSE IF 4 * a_new = 0
           THEN returns("Math Error: Division by zero in reduction step")
           ELSE IF TruncRem(b_new * b_new - discriminant, 4 * a_new) # 0
           THEN returns("Invariant Violated: Consistency lost during reduction step")
           ELSE /\ alg_call' = <<"reduce_loop", a_new, b_new,
                                  TruncDiv(b_new * b_new - discriminant, 4 * a_new),
                                  safety_counter + 1, alg_call[6]>>
                /\ alg_ret' = alg_ret
    /\ UNCHANGED <<discriminant, FuseVars, StreamVars, TensorVars, ProofVars, NeuronVars>>

\* the loop is left: the final checks decide what is returned
ReduceExit ==
    /\ alg_call[1] = "reduce_loop"
    /\ ~ReduceContinues(alg_call[2], alg_call[3], alg_call[4])
    /\ alg_call' = <<"reduce_returned", alg_call[2], alg_call[3], alg_call[4],
                     alg_call[5], alg_call[6]>>
    /\ alg_ret' = ReduceCheck(alg_call[2], alg_call[3], alg_call[4], discriminant)
    /\ UNCHANGED <<discriminant, FuseVars, StreamVars, TensorVars, ProofVars, NeuronVars>>

\* a call that has been entered keeps running until it returns
SpecReduce ==
    /\ InitAlgebra
    /\ [][ReduceEnter \/ ReduceIterate \/ ReduceExit]_vars
    /\ WF_vars(ReduceIterate \/ ReduceExit)

GENERATOR_MAX_ATTEMPTS == 10000

RECURSIVE Jacobi(_, _)
\* Integer::jacobi, the Jacobi symbol (a / n) of an odd n > 0
Jacobi(a, n) ==
    IF a % n = 0 THEN (IF n = 1 THEN 1 ELSE 0)
    ELSE IF (a % n) % 2 = 0
    THEN (IF n % 8 \in {3, 5} THEN -1 ELSE 1) * Jacobi((a % n) \div 2, n)
    ELSE IF a % n = 1 THEN 1
    ELSE (IF (a % n) % 4 = 3 /\ n % 4 = 3 THEN -1 ELSE 1) * Jacobi(n % (a % n), a % n)

\* the search for b over every residue modulo 4p (b and 4p - b have the same
\* square, so the residues below 2p suffice)
GeneratorFindBAnywhere(p, d) ==
    LET hits == {b \in 1..(2 * p - 1) : b % 2 = 1 /\ (b * b - d) % (4 * p) = 0}
    IN  IF hits = {} THEN 0 ELSE CHOOSE b \in hits : \A x \in hits : b <= x

\* the search for b: the least odd b below b_limit with 4p | b^2 - D, 0 when
\* there is none (found_b = false)
GeneratorFindB(p, d) ==
    LET b_limit == IF p < 10000 THEN 4 * p ELSE 20000
        hits == {b \in 1..(b_limit - 1) : b % 2 = 1 /\ (b * b - d) % (4 * p) = 0}
    IN  IF hits = {} THEN 0 ELSE CHOOSE b \in hits : \A x \in hits : b <= x

\* the most primes one search of the model examines
MaxExamined == 8

\* the largest of the small digests the search is started from
MaxGenHash == 16

\* the digests of the discriminant the search is started from
GeneratorHashes == (2..MaxGenHash) \cup {20508, 21382}

\* the search starts at the first prime above the digest
GeneratorStart ==
    /\ alg_call = <<"none">>
    /\ \E hash_output \in GeneratorHashes :
          alg_call' = <<"generator", NextPrime(hash_output), 0, <<>>>>
    /\ UNCHANGED <<alg_ret, discriminant, FuseVars, StreamVars, TensorVars, ProofVars,
                   NeuronVars>>

\* one iteration of the search loop
GeneratorExamine ==
    /\ alg_call[1] = "generator"
    /\ alg_call[3] < MaxExamined
    /\ LET p == alg_call[2]
           attempts == alg_call[3]
           symbol == Jacobi(discriminant, p)
           b == IF symbol = 1 THEN GeneratorFindB(p, discriminant) ELSE 0
           reduced == IF b # 0 THEN ReduceForm(p, b, discriminant) ELSE Err("")
       IN  IF attempts > GENERATOR_MAX_ATTEMPTS
           THEN /\ alg_call' = <<"generator_panicked", p, attempts, alg_call[4]>>
                /\ alg_ret' = Err("panic: Unable to find valid generator")
           ELSE IF reduced.ok /\ ~HasSmallOrder(reduced.val, discriminant, 1000)
           THEN /\ alg_call' = <<"generator_returned", p, attempts, <<p, symbol, b>>>>
                /\ alg_ret' = reduced
           ELSE /\ alg_call' = <<"generator", NextPrime(p), attempts + 1, <<p, symbol, b>>>>
                /\ alg_ret' = alg_ret
    /\ UNCHANGED <<discriminant, FuseVars, StreamVars, TensorVars, ProofVars, NeuronVars>>

InitGenerator ==
    /\ discriminant \in {-23, -39}
    /\ AlgIdle /\ FuseIdle /\ StreamIdle /\ TensorIdle /\ ProofIdle /\ NeuronIdle

SpecGenerator == InitGenerator /\ [][GeneratorStart \/ GeneratorExamine]_vars

\* C25: generator examines the primes in ascending order from its start;
\* for every examined prime p with Jacobi symbol (D / p) = 1 for which some
\* b with b^2 = D (mod 4p) exists it finds such a b; it returns the reduced
\* form of the first (p, b) that is not of small order; and it aborts only
\* after more than 10,000 primes
C25_GeneratorSearch ==
    /\ (alg_call[1] \in {"generator", "generator_returned"} /\ alg_call[4] # <<>>) =>
           /\ alg_call[1] = "generator" =>
                  /\ alg_call[2] > alg_call[4][1]
                  /\ IsPrime(alg_call[2])
                  /\ \A q \in (alg_call[4][1] + 1)..(alg_call[2] - 1) : ~IsPrime(q)
           /\ (/\ alg_call[4][2] = 1
               /\ GeneratorFindBAnywhere(alg_call[4][1], discriminant) # 0) =>
                  /\ alg_call[4][3] # 0
                  /\ (alg_call[4][3] * alg_call[4][3] - discriminant)
                         % (4 * alg_call[4][1]) = 0
    /\ alg_call[1] = "generator_returned" =>
           /\ alg_ret = ReduceForm(alg_call[4][1], alg_call[4][3], discriminant)
           /\ alg_ret.ok
           /\ ~HasSmallOrder(alg_ret.val, discriminant, 1000)
    /\ alg_call[1] = "generator_panicked" => alg_call[3] > GENERATOR_MAX_ATTEMPTS

MaxRefine == 3

\* the operators delivered: small P-factors, and to open a sequence a
\* P-factor as wide as the fuse
RefineOperators(d, delivered) ==
    {AffineTuple(BigFromNat(n), q) : n \in {2, 3}, q \in ReducedForms(d)}
    \cup (IF delivered = 0
          THEN {AffineTuple(BigPow2(MAX_CHUNK_P_BITS - 1), q) : q \in ReducedForms(d)}
          ELSE {})

\* one operator goes to both paths
RefineStep ==
    /\ stream_err = ""
    /\ stream_len < MaxRefine
    /\ \E op \in RefineOperators(discriminant, stream_len) :
          /\ chain_op' = op
          /\ IF chain_err = ""
             THEN ChainAssign(AffineCompose(accumulator, op, discriminant))
             ELSE UNCHANGED <<accumulator, chain_len, chain_err>>
          /\ StreamAssign(ApplyAffine(state, op.p_factor, op.q_shift, discriminant))
    /\ UNCHANGED <<discriminant, AlgVars, TensorVars, ProofVars, NeuronVars>>

InitRefine ==
    /\ discriminant \in Discriminants
    /\ accumulator = AffineIdentity(discriminant)
    /\ chain_op = NoTuple
    /\ chain_len = 0
    /\ chain_err = ""
    /\ state = Identity(discriminant)
    /\ stream_len = 0
    /\ stream_err = ""
    /\ AlgIdle /\ TensorIdle /\ ProofIdle /\ NeuronIdle

SpecRefine == InitRefine /\ [][RefineStep]_vars

\* C27: streaming refines chaining: while the left-to-right compose fold of
\* the operators delivered succeeds, applying them in order to a state
\* started at the identity succeeds and the state is the q_shift of the
\* composed tuple; and where the fold has failed on the P-factor fuse the
\* streaming path still succeeds
C27_StreamingRefinesChaining ==
    /\ chain_err = "" =>
           /\ stream_err = ""
           /\ stream_len = chain_len
           /\ state = accumulator.q_shift
    /\ chain_err = Falsified => stream_err = ""

(***************************************************************************)
(* TimeSegmentTree::generate_witness                                       *)
(***************************************************************************)
\* Result<Vec<(AffineTuple, bool)>, String> with the aggregate of the slice
WitnessResult(agg, witness) ==
    IF agg.ok THEN [ok |-> TRUE, val |-> agg.val, witness |-> witness, err |-> ""]
    ELSE [ok |-> FALSE, val |-> NoTuple, witness |-> <<>>, err |-> agg.err]

RECURSIVE GenerateWitnessRecursive(_, _, _, _, _)
\* generate_witness_recursive; on an empty slice the recursion of the source
\* never ends, which is the stack overflow returned here
GenerateWitnessRecursive(nodes, target_abs_index, current_offset, d, witness) ==
    IF Len(nodes) = 0 THEN WitnessResult(ErrTuple("stack overflow"), <<>>)
    ELSE IF Len(nodes) = 1 THEN WitnessResult(OkTuple(nodes[1]), witness)
    ELSE LET mid == Len(nodes) \div 2
             left_slice == SubSeq(nodes, 1, mid)
             right_slice == SubSeq(nodes, mid + 1, Len(nodes))
         IN  IF target_abs_index < current_offset + mid
             THEN LET right_agg == BuildTreeRecursive(right_slice, d)
                      left_agg == GenerateWitnessRecursive(
                                      left_slice, target_abs_index, current_offset, d,
                                      Append(witness, <<right_agg.val, FALSE>>))
                  IN  IF ~right_agg.ok THEN WitnessResult(right_agg, <<>>)
                      ELSE IF ~left_agg.ok THEN left_agg
                      ELSE WitnessResult(AffineCompose(left_agg.val, right_agg.val, d),
                                         left_agg.witness)
             ELSE LET left_agg == BuildTreeRecursive(left_slice, d)
                      right_agg == GenerateWitnessRecursive(
                                       right_slice, target_abs_index, current_offset + mid, d,
                                       Append(witness, <<left_agg.val, TRUE>>))
                  IN  IF ~left_agg.ok THEN WitnessResult(left_agg, <<>>)
                      ELSE IF ~right_agg.ok THEN right_agg
                      ELSE WitnessResult(AffineCompose(left_agg.val, right_agg.val, d),
                                         right_agg.witness)

\* an index check that lets the index one past the last leaf through
WitnessIndexAtMost(index, len) == index <= len

\* the index check of generate_witness
WitnessIndexRecorded(index, len) == index < len

\* TimeSegmentTree::generate_witness
GenerateWitness(leaves, index, d) ==
    IF ~WitnessIndexRecorded(index, Len(leaves))
    THEN [ok |-> FALSE, witness |-> <<>>,
          err |-> "Security Halt: Witness index out of bounds"]
    ELSE [ok |-> GenerateWitnessRecursive(leaves, index, 0, d, <<>>).ok,
          witness |-> GenerateWitnessRecursive(leaves, index, 0, d, <<>>).witness,
          err |-> GenerateWitnessRecursive(leaves, index, 0, d, <<>>).err]

\* generate_witness on the cell's tree
CallGenerateWitness ==
    /\ \E index \in 0..(MaxHistory + 1) :
          tensor_ret' = <<"generate_witness", index, GenerateWitness(History, index, discriminant)>>
    /\ UNCHANGED <<discriminant, dimensions, side_length, data,
                   FuseVars, StreamVars, AlgVars, ProofVars, NeuronVars>>

SpecWitness == InitHistory /\ [][TreeAppend \/ CallGenerateWitness]_vars

\* C29: generate_witness(index) returns an error and no witness path
\* whenever index is not below the number of recorded leaves, always so on
\* an empty tree, and it leaves the tree as it was
C29_NoWitnessBeyondHistory ==
    /\ []((tensor_ret[1] = "generate_witness" /\ tensor_ret[2] >= Len(History)) =>
              /\ ~tensor_ret[3].ok
              /\ tensor_ret[3].witness = <<>>)
    /\ [][tensor_ret'[1] = "generate_witness" => data' = data]_vars

\* index 2 asked of a history of two leaves
C29_Witness ==
    /\ tensor_ret[1] = "generate_witness"
    /\ Len(History) = 2
    /\ tensor_ret[2] = 2
    /\ ~tensor_ret[3].ok

(***************************************************************************)
(* dsl/soul/algebra.rs: the class group of the DSL, on num_bigint::BigInt  *)
(* (`/` and `%` truncate, rem_euclid is non-negative)                      *)
(***************************************************************************)
RECURSIVE SoulEgcdLoop(_, _, _, _, _, _)
\* num_integer's extended_gcd: the loop on the pairs r, s, t
SoulEgcdLoop(r0, r1, s0, s1, t0, t1) ==
    IF r0 = 0
    THEN IF r1 >= 0 THEN [gcd |-> r1, x |-> s1, y |-> t1]
         ELSE [gcd |-> -r1, x |-> -s1, y |-> -t1]
    ELSE SoulEgcdLoop(r1 - TruncDiv(r1, r0) * r0, r0,
                      s1 - TruncDiv(r1, r0) * s0, s0,
                      t1 - TruncDiv(r1, r0) * t0, t0)

\* a.extended_gcd(&b): gcd = x * a + y * b
SoulExtendedGcd(a, b) == SoulEgcdLoop(b, a, 0, 1, 1, 0)

RECURSIVE SoulReduce(_, _, _)
\* reduce: b is moved into (-a, a], a and c are swapped while a > c, and b
\* is made non-negative on the boundary
SoulReduce(a, b, c) ==
    LET two_a == 2 * a
        r == TruncRem(b, two_a)
        b_new == IF Abs(b) > a
                 THEN (IF r > a THEN r - two_a ELSE IF r <= -a THEN r + two_a ELSE r)
                 ELSE b
        k == TruncDiv(b_new - b, two_a)
        c_new == IF Abs(b) > a THEN c + k * (b + a * k) ELSE c
    IN  IF a > c_new THEN SoulReduce(c_new, -b_new, a)
        ELSE IF (a = c_new \/ a = Abs(b_new)) /\ b_new < 0 THEN Form(a, -b_new, c_new)
        ELSE Form(a, b_new, c_new)

\* compose
SoulCompose(self, other) ==
    LET delta == self.b * self.b - 4 * self.a * self.c
        s == TruncDiv(self.b + other.b, 2)
        n == TruncDiv(self.b - other.b, 2)
        egcd1 == SoulExtendedGcd(self.a, other.a)
        egcd2 == SoulExtendedGcd(egcd1.gcd, s)
        d == egcd2.gcd
        a3 == TruncDiv(self.a * other.a, d * d)
        big_k == egcd2.y * n - egcd2.x * egcd1.y * other.c
        b3 == RemEuc(other.b + TruncDiv(2 * other.a, d) * big_k, 2 * a3)
        c3 == TruncDiv(b3 * b3 - delta, 2 * (2 * a3))
    IN  SoulReduce(a3, b3, c3)

\* inverse
SoulInverse(self) == SoulReduce(self.a, -self.b, self.c)

\* identity, of a discriminant that is 0 or 1 modulo 4
SoulIdentity(d) ==
    IF RemEuc(d, 4) = 0 THEN SoulReduce(1, 0, TruncDiv(-d, 4))
    ELSE SoulReduce(1, 1, TruncDiv(1 - d, 4))

\* evolve: the form (a_in, b_in, 1) of the seed, reduced, composed onto self
SoulEvolve(self, input_seed) ==
    LET delta == self.b * self.b - 4 * self.a * self.c
        b_in == IF (input_seed % 2 = 1) # (RemEuc(delta, 4) # 0)
                THEN input_seed + 1 ELSE input_seed
    IN  SoulCompose(self, SoulReduce(TruncDiv(b_in * b_in - delta, 4), b_in, 1))

\* the largest seed evolve is called with
MaxSeed == 5

CallSoulCompose ==
    /\ alg_call = <<"none">>
    /\ \E self \in ReducedForms(discriminant), other \in ReducedForms(discriminant) :
          /\ alg_call' = <<"soul_compose", self, other>>
          /\ alg_ret' = Ok(SoulCompose(self, other))
    /\ UNCHANGED <<discriminant, FuseVars, StreamVars, TensorVars, ProofVars, NeuronVars>>

CallSoulInverse ==
    /\ alg_call = <<"none">>
    /\ \E self \in ReducedForms(discriminant) :
          /\ alg_call' = <<"soul_inverse", self>>
          /\ alg_ret' = Ok(SoulInverse(self))
    /\ UNCHANGED <<discriminant, FuseVars, StreamVars, TensorVars, ProofVars, NeuronVars>>

CallSoulIdentity ==
    /\ alg_call = <<"none">>
    /\ alg_call' = <<"soul_identity", discriminant>>
    /\ alg_ret' = Ok(SoulIdentity(discriminant))
    /\ UNCHANGED <<discriminant, FuseVars, StreamVars, TensorVars, ProofVars, NeuronVars>>

CallSoulEvolve ==
    /\ alg_call = <<"none">>
    /\ \E self \in ReducedForms(discriminant), input_seed \in 0..MaxSeed :
          /\ alg_call' = <<"soul_evolve", self, input_seed>>
          /\ alg_ret' = Ok(SoulEvolve(self, input_seed))
    /\ UNCHANGED <<discriminant, FuseVars, StreamVars, TensorVars, ProofVars, NeuronVars>>

InitSoul ==
    /\ discriminant \in Discriminants \cup {-39}
    /\ AlgIdle /\ FuseIdle /\ StreamIdle /\ TensorIdle /\ ProofIdle /\ NeuronIdle

SpecSoul ==
    InitSoul /\ [][CallSoulCompose \/ CallSoulInverse \/ CallSoulIdentity
                   \/ CallSoulEvolve]_vars

\* C30: in the class group of the DSL, compose of two reduced forms of one
\* discriminant returns a form of that discriminant which is reduced
\* (|b| <= a <= c, and b >= 0 when |b| = a or a = c); the same holds for
\* inverse, identity and evolve
C30_SoulStaysInGroup ==
    alg_call[1] \in {"soul_compose", "soul_inverse", "soul_identity", "soul_evolve"} =>
        /\ alg_ret.val.b * alg_ret.val.b - 4 * alg_ret.val.a * alg_ret.val.c = discriminant
        /\ Abs(alg_ret.val.b) <= alg_ret.val.a
        /\ alg_ret.val.a <= alg_ret.val.c
        /\ (Abs(alg_ret.val.b) = alg_ret.val.a \/ alg_ret.val.a = alg_ret.val.c)
               => alg_ret.val.b >= 0

(***************************************************************************)
(* The RwLocks of one model with one neuron: model (train_loop.rs),        *)
(* neuron (structure.rs), and the neuron's memory, semantic_root and       *)
(* commitment_buffer (neuron.rs).  Each thread runs one operation: it      *)
(* takes the guards of the operation one by one, blocks while a guard is   *)
(* not to be had, and drops every guard it holds when the operation        *)
(* returns or panics.                                                      *)
(***************************************************************************)
\* the guards activate takes on entry
ActivateGuards ==
    <<<<"memory", "write">>, <<"semantic_root", "write">>, <<"commitment_buffer", "write">>>>

\* an oracle that takes semantic_root before memory
LockProgramUnordered(op) ==
    CASE op = "activate" -> ActivateGuards
      [] op = "forward" -> <<<<"neuron", "read">>>> \o ActivateGuards
      [] op = "train_step" -> <<<<"model", "read">>, <<"neuron", "read">>>> \o ActivateGuards
      [] op = "oracle" -> <<<<"semantic_root", "read">>, <<"memory", "read">>>>
      [] op = "mutate_network" ->
             <<<<"model", "write">>, <<"neuron", "write">>, <<"memory", "write">>>>

\* the guards an operation takes, in the order in which its code takes them
LockProgram(op) ==
    CASE op = "activate" -> ActivateGuards
      [] op = "forward" -> <<<<"neuron", "read">>>> \o ActivateGuards
      [] op = "train_step" -> <<<<"model", "read">>, <<"neuron", "read">>>> \o ActivateGuards
      [] op = "oracle" -> <<<<"memory", "read">>>>
      [] op = "mutate_network" ->
             <<<<"model", "write">>, <<"neuron", "write">>, <<"memory", "write">>>>

\* the operations of the threads
LockOperations == {"activate", "forward", "train_step", "oracle", "mutate_network"}

\* thread t runs an operation
Running(t) == threads[t].op \in LockOperations

\* RwLock: a write guard excludes every other guard, a read guard the
\* write guard
GuardFree(guard, t) ==
    \A u \in (1..MaxThreads) \ {t} : \A h \in threads[u].held :
        h[1] = guard[1] => (guard[2] = "read" /\ h[2] = "read")

\* the locks whose write guard thread t holds
WriteHeld(t) == {h[1] : h \in {g \in threads[t].held : g[2] = "write"}}

\* a thread calls an operation
ThreadBegin ==
    /\ \E t \in 1..MaxThreads, op \in LockOperations :
          /\ threads[t].op = "idle"
          /\ threads' = [threads EXCEPT ![t] = [op |-> op, pc |-> 0, held |-> {}]]
    /\ UNCHANGED <<poisoned, discriminant, p_weight, semantic_root, commitment_buffer,
                   generator_ret, input_stream, loop_t, neuron_pc, emitted, activate_ret,
                   readers, FuseVars, StreamVars, AlgVars, TensorVars, ProofVars>>

\* a thread takes the next guard of its operation.  On a poisoned lock the
\* operation returns its error (map_err and `?`), mutate_network panics
\* (expect) or goes on without the memory guard (if let Ok)
ThreadAcquire ==
    /\ \E t \in 1..MaxThreads :
          /\ Running(t)
          /\ threads[t].pc < Len(LockProgram(threads[t].op))
          /\ GuardFree(LockProgram(threads[t].op)[threads[t].pc + 1], t)
          /\ LET guard == LockProgram(threads[t].op)[threads[t].pc + 1]
             IN  IF guard[1] \notin poisoned
                 THEN /\ threads' = [threads EXCEPT ![t].pc = @ + 1, ![t].held = @ \cup {guard}]
                      /\ UNCHANGED poisoned
                 ELSE IF threads[t].op # "mutate_network"
                 THEN /\ threads' = [threads EXCEPT ![t] = [op |-> "done", pc |-> 0, held |-> {}]]
                      /\ UNCHANGED poisoned
                 ELSE IF guard[1] = "memory"
                 THEN /\ threads' = [threads EXCEPT ![t].pc = @ + 1]
                      /\ UNCHANGED poisoned
                 ELSE /\ threads' = [threads EXCEPT ![t] = [op |-> "done", pc |-> 0, held |-> {}]]
                      /\ poisoned' = poisoned \cup WriteHeld(t)
    /\ UNCHANGED <<discriminant, p_weight, semantic_root, commitment_buffer,
                   generator_ret, input_stream, loop_t, neuron_pc, emitted, activate_ret,
                   readers, FuseVars, StreamVars, AlgVars, TensorVars, ProofVars>>

\* an operation ends and its guards are dropped: it returns, Ok or Err,
\* with every guard taken (mutate_network with those of the mutations
\* drawn), or activate panics in it and the locks it holds the write guard
\* of are poisoned
ThreadReturn ==
    /\ \E t \in 1..MaxThreads :
          /\ Running(t)
          /\ \/ threads[t].pc = Len(LockProgram(threads[t].op))
             \/ threads[t].op = "mutate_network" /\ threads[t].pc >= 1
          /\ threads' = [threads EXCEPT ![t] = [op |-> "done", pc |-> 0, held |-> {}]]
          /\ \E panics \in IF threads[t].op \in {"activate", "forward", "train_step"}
                            THEN {FALSE, TRUE} ELSE {FALSE} :
                poisoned' = IF panics THEN poisoned \cup WriteHeld(t) ELSE poisoned
    /\ UNCHANGED <<discriminant, p_weight, semantic_root, commitment_buffer,
                   generator_ret, input_stream, loop_t, neuron_pc, emitted, activate_ret,
                   readers, FuseVars, StreamVars, AlgVars, TensorVars, ProofVars>>

InitLocks ==
    /\ discriminant = -23
    /\ FuseIdle /\ StreamIdle /\ AlgIdle /\ TensorIdle /\ ProofIdle /\ NeuronIdle

\* a thread that can take a step does so in the end
SpecLocks ==
    /\ InitLocks
    /\ [][ThreadBegin \/ ThreadAcquire \/ ThreadReturn]_vars
    /\ WF_vars(ThreadAcquire \/ ThreadReturn)

\* the fixed order of the locks
LockOrder == <<"model", "neuron", "memory", "semantic_root", "commitment_buffer">>

\* the place of a lock in the order
LockRank(lock) == CHOOSE i \in 1..Len(LockOrder) : LockOrder[i] = lock

\* thread t can go on even when a read guard is refused while a writer
\* waits for the lock (the priority policy of RwLock is the platform's)
CanProceed(t) ==
    /\ Running(t)
    /\ \/ threads[t].pc = Len(LockProgram(threads[t].op))
       \/ /\ threads[t].pc < Len(LockProgram(threads[t].op))
          /\ GuardFree(LockProgram(threads[t].op)[threads[t].pc + 1], t)
          /\ LockProgram(threads[t].op)[threads[t].pc + 1][2] = "read" =>
                \A u \in (1..MaxThreads) \ {t} :
                    ~(/\ Running(u)
                      /\ threads[u].pc < Len(LockProgram(threads[u].op))
                      /\ LockProgram(threads[u].op)[threads[u].pc + 1]
                            = <<LockProgram(threads[t].op)[threads[t].pc + 1][1], "write">>)

\* C28: lock acquisition cannot deadlock: every operation takes its locks
\* in the one order model, neuron, memory, semantic_root,
\* commitment_buffer and drops them all when it ends, by return, error or
\* panic; so under any interleaving of activate calls, forward passes,
\* oracle queries and mutations some running operation can always go on,
\* every operation completes, and no lock stays held
C28_NoDeadlock ==
    /\ [][\A t \in 1..MaxThreads :
            \A guard \in threads'[t].held \ threads[t].held : \A h \in threads[t].held :
                LockRank(h[1]) < LockRank(guard[1])]_vars
    /\ [](\A t \in 1..MaxThreads : ~Running(t) => threads[t].held = {})
    /\ []((\E t \in 1..MaxThreads : Running(t)) => (\E t \in 1..MaxThreads : CanProceed(t)))
    /\ \A t \in 1..MaxThreads : Running(t) ~> (threads[t].op = "done")

\* an activation holds the memory, a mutation holding model and neuron waits
\* for it, and a query waits for the memory too
C28_Witness ==
    \E t, u, w \in 1..MaxThreads :
        /\ threads[t].op = "activate" /\ threads[t].pc = 3
        /\ threads[u].op = "mutate_network" /\ threads[u].pc = 2
        /\ threads[w].op = "oracle" /\ threads[w].pc = 0
====
